---- MODULE Spec2Model ----
(***************************************************************************)
(* Orchestration model of the batch data-warehouse pipeline.               *)
(*                                                                         *)
(*   Spec       the setup scripts' read-or-create helpers, then the Loader *)
(*              Stage (scripts/lambda/lambda_3.py) invoked again and again,*)
(*              one invocation at a time, with the services free to be     *)
(*              slow, to fail and to reject calls;                         *)
(*   RaceSpec   the same handler run by overlapping invocations against    *)
(*              one account whose services answer promptly;                *)
(*   SqlSpec    overlapping invocations on a provisioned account, with the *)
(*              SQL execution service executing what it acknowledged;      *)
(*   RerunSpec  Spec with the statements on one table followed;            *)
(*   PollSpec   the two bounded pollers on their own, over all status      *)
(*              sequences and a range of deadlines and intervals;          *)
(*   Stage1Spec Stage 1 (scripts/lambda/lambda_1.py) over small payloads;  *)
(*   Stage2Spec Stage 2 (scripts/lambda/lambda_2.py) over all small events;*)
(*   HandlersSpec each of the three handlers on its own.                   *)
(*   SplitSpec  runs of the split job (scripts/glue/glue_split_fact_dim.py)*)
(*              and the Loader Stage invocations they ask for;             *)
(*   PipeSpec   the chain from the timer tick to the split job runs, with  *)
(*              failures at every stage;                                   *)
(*   LiveSpec   the whole chain as deployed, without failures, under weak  *)
(*              fairness;                                                  *)
(*   DeploySpec calls of create_or_update_lambda                           *)
(*              (scripts/lambda/deploy_lambdas.py);                        *)
(*   WireSpec   the two wiring functions of                                *)
(*              scripts/automation/pipeline_automation.py;                 *)
(*   CeilingSpec the Loader Stage as deployed, under the execution-time    *)
(*              ceiling of its function.                                   *)
(***************************************************************************)
EXTENDS Integers, Sequences, FiniteSets, TLC

VARIABLES
    \* ---- the account (shared external state) ----
    res,        \* resource kind -> [exists, cfg, by]
    wgStatus,   \* status of the Redshift workgroup
    crState,    \* state of the Glue crawler
    crPending,  \* a start request was accepted, the crawl has not begun yet
    yielded,    \* kind -> what each completed read-or-create call ended with
    \* ---- setup scripts (one operator, sequential) ----
    opPc, opKind,
    \* ---- Loader Stage invocations ----
    runs,       \* invocations made so far
    pc,         \* slot -> the call the invocation in that slot makes next
    inv,        \* slot -> number of the invocation in it
    missing,    \* slot -> the setting its environment lacks, or "none"
    waited, idx, log, resp, cause, atStart,
    elapsed,    \* slot -> seconds the invocation in it has slept so far
    \* ---- a bounded poller run on its own ----
    pWhich, pMax, pInt, pWaited, pPolls, pSleeps, pResult, pSeen,
    \* ---- Stage 1 ----
    s1Event, s1Job, s1Pc, s1Calls, s1Returned, s1Resp,
    \* ---- Stage 2 ----
    s2Event, s2Bucket, s2Pc, s2Idx, s2Runs, s2Skipped, s2Resp,
    \* ---- the SQL execution service, as far as one table is watched ----
    watched,    \* the table whose statements are followed, or "none"
    sqlPending, \* statements acknowledged and not yet executed
    sqlDone,    \* statements that executed
    sqlFailed,  \* statements that failed when they came to execute
    tbl,        \* the watched table: [exists, loads]
    \* ---- the batch jobs and what triggers them ----
    jPc,        \* split job run -> the step it takes next
    jLog,       \* split job run -> the calls it made: [call, arg, ok]
    jStarted,   \* split job runs started by earlier Stage 2 invocations
    ticks,      \* timer ticks fired so far
    tPc,        \* the transform job run: "none", "running", "done", "failed"
    objects,    \* keys of the objects the transform job run wrote, in order
    delivered,  \* how many of their notifications were handed to Stage 2
    s2Lost,     \* matching notifications left unprocessed by Stage 2
                \* invocations that ended in error
    \* ---- deployment (scripts/lambda/deploy_lambdas.py) ----
    fn,         \* function name -> the function as the Lambda service holds it
    dPc,        \* the call of create_or_update_lambda: the step it takes next
    dArgs,      \* its arguments
    dLog,       \* the Lambda and IAM calls it made
    dBefore,    \* the functions as they were when it began
    dSame,      \* it repeats the call before it, which returned
    dCalls,     \* calls of create_or_update_lambda made so far
    \* ---- event wiring (scripts/automation/pipeline_automation.py) ----
    perms,      \* statement ids of Stage 2's resource policy
    notif,      \* the bucket's notification configuration
    wPc,        \* the wiring function being run: the step it takes next
    wCfg,       \* its local existing_config
    wLog,       \* the calls it made: [call, error]
    wBefore,    \* the notification configuration as it was when it began
    wRuns       \* runs of the wiring functions so far

acctVars == <<res, wgStatus, crState, crPending, yielded>>
opVars   == <<opPc, opKind>>
ldVars   == <<runs, pc, inv, missing, waited, idx, log, resp, cause, atStart,
             elapsed>>
pVars    == <<pWhich, pMax, pInt, pWaited, pPolls, pSleeps, pResult, pSeen>>
s1Vars   == <<s1Event, s1Job, s1Pc, s1Calls, s1Returned, s1Resp>>
s2Vars   == <<s2Event, s2Bucket, s2Pc, s2Idx, s2Runs, s2Skipped, s2Resp>>
sqlVars  == <<watched, sqlPending, sqlDone, sqlFailed, tbl>>
pipeVars == <<jStarted, ticks, tPc, objects, delivered, s2Lost>>
jobVars  == <<jPc, jLog, pipeVars>>
fnVars   == <<fn, dPc, dArgs, dLog, dBefore, dSame, dCalls>>
wireVars == <<perms, notif, wPc, wCfg, wLog, wBefore, wRuns>>
dplVars  == <<fnVars, wireVars>>
others   == <<acctVars, opVars, ldVars, pVars, s1Vars, s2Vars, sqlVars, jobVars>>
vars     == <<acctVars, opVars, ldVars, pVars, s1Vars, s2Vars, sqlVars, jobVars,
             dplVars>>

(***************************************************************************)
(* Bounds of the model.                                                    *)
(***************************************************************************)
MaxRuns        == 2      \* Loader Stage invocations made in one behaviour
NumSlots       == 2      \* Loader Stage invocations that may overlap
MaxSleeps      == 2      \* RaceSpec: sleeps before a prompt service answers
EnsureCalls    == 2      \* times the operator runs each provisioning helper
MaxSecondsTry  == 4      \* largest max_seconds tried besides the deployed ones
MaxIntervalTry == 3      \* largest poll_interval tried besides the deployed one
MaxRecords     == 3      \* notifications in one Stage 2 event
MaxSplitRuns   == 2      \* runs of the split job in one behaviour

Slots == 1..NumSlots
SplitRuns == 1..MaxSplitRuns
\* the slot Spec runs its invocations in: the first
Solo  == CHOOSE i \in Slots : \A j \in Slots : i <= j

(***************************************************************************)
(* The account.                                                            *)
(***************************************************************************)
LoaderKinds == {"namespace", "workgroup", "database", "crawler"}
ScriptKinds == {"role", "job", "rule"}
Kinds       == LoaderKinds \cup ScriptKinds

\* The desired configuration a caller passes to its create calls (admin user
\* and password, IAM roles, crawler target, ...).  Every invocation carries
\* its own (caller 0 is the operator), so that a create call made where a
\* read was due, or an update, would show in the resource.
DesiredConfig(who) == who

Absent           == [exists |-> FALSE, cfg |-> 0, by |-> 0]
Resource(c, who) == [exists |-> TRUE, cfg |-> c, by |-> who]

\* a read-or-create call has completed, ending with identifier id
Yield(k, id, made) == [yielded EXCEPT ![k] = Append(@, [id |-> id, created |-> made])]

(***************************************************************************)
(* The functions the Lambda service holds (deploy_lambdas.py creates and   *)
(* updates them).  A function the model does not follow the deployment of  *)
(* is NoFunction: its invocations run without an execution-time ceiling.   *)
(***************************************************************************)
\* FunctionName of the lambda_client.invoke call, and of the third deployment
LoaderFunction == "lambda-load-redshift"
Stage1Function == "lambda-trigger-glue"
Stage2Function == "lambda-split-fact-dim"
FunctionNames  == {Stage1Function, Stage2Function, LoaderFunction}

NoFunction == [exists |-> FALSE, code |-> <<>>, handler |-> "", timeout |-> 0,
               env |-> {}, runtime |-> "",
               role |-> [account |-> "", resource |-> <<>>]]

\* Timeout of the Loader Stage's function: the platform ends an invocation
\* whose execution time reaches it (0: no ceiling followed)
Ceiling == IF fn[LoaderFunction].exists THEN fn[LoaderFunction].timeout ELSE 0

(***************************************************************************)
(* Bounded pollers (lambda_3.py).  One evaluation is one turn of the       *)
(* `while True` loop: the status check, the two tests, then the sleep.     *)
(***************************************************************************)
\* a poller that gives up without raising (C2), and one that waits one
\* interval too long (C8)
wait_for_workgroup_available_GivesUp(status, w, max_seconds, poll_interval) ==
    IF status = "AVAILABLE" \/ w >= max_seconds
    THEN [outcome |-> "return", waited |-> w]
    ELSE [outcome |-> "sleep", waited |-> w + poll_interval]

wait_for_workgroup_available_Late(status, w, max_seconds, poll_interval) ==
    IF status = "AVAILABLE" THEN [outcome |-> "return", waited |-> w]
    ELSE IF w > max_seconds THEN [outcome |-> "timeout", waited |-> w]
    ELSE [outcome |-> "sleep", waited |-> w + poll_interval]

\* a poller that gives the wait up as soon as the workgroup reports a status
\* it cannot leave (C30)
wait_for_workgroup_available_FailsFast(status, w, max_seconds, poll_interval) ==
    IF status = "AVAILABLE" THEN [outcome |-> "return", waited |-> w]
    ELSE IF status \in {"FAILED", "DELETING"} \/ w >= max_seconds
         THEN [outcome |-> "timeout", waited |-> w]
    ELSE [outcome |-> "sleep", waited |-> w + poll_interval]

wait_for_workgroup_available(status, w, max_seconds, poll_interval) ==
    IF status = "AVAILABLE" THEN [outcome |-> "return", waited |-> w]
    ELSE IF w >= max_seconds THEN [outcome |-> "timeout", waited |-> w]
    ELSE [outcome |-> "sleep", waited |-> w + poll_interval]

\* a poller without a deadline (C25)
wait_for_crawler_ready_NoDeadline(state, w, max_seconds, poll_interval) ==
    IF state = "READY" THEN [outcome |-> "return", waited |-> w]
    ELSE [outcome |-> "sleep", waited |-> w + poll_interval]

\* a poller that tests the deadline before the status (C7)
wait_for_crawler_ready_DeadlineFirst(state, w, max_seconds, poll_interval) ==
    IF w >= max_seconds THEN [outcome |-> "timeout", waited |-> w]
    ELSE IF state = "READY" THEN [outcome |-> "return", waited |-> w]
    ELSE [outcome |-> "sleep", waited |-> w + poll_interval]

\* a poller that takes READY for the end of a crawl only after having
\* waited for it (C18)
wait_for_crawler_ready_AfterWaiting(state, w, max_seconds, poll_interval) ==
    IF state = "READY" /\ w > 0 THEN [outcome |-> "return", waited |-> w]
    ELSE IF w >= max_seconds THEN [outcome |-> "timeout", waited |-> w]
    ELSE [outcome |-> "sleep", waited |-> w + poll_interval]

wait_for_crawler_ready(state, w, max_seconds, poll_interval) ==
    IF state = "READY" THEN [outcome |-> "return", waited |-> w]
    ELSE IF w >= max_seconds THEN [outcome |-> "timeout", waited |-> w]
    ELSE [outcome |-> "sleep", waited |-> w + poll_interval]

\* the arguments lambda_handler passes to the two pollers
WorkgroupMaxSeconds == 900
CrawlerMaxSeconds   == 600
PollInterval        == 15

(***************************************************************************)
(* Setup scripts: read-or-create helpers, run by one operator.             *)
(***************************************************************************)
AccountId == "acct"
RoleName  == "glue-etl-role"

\* An ARN "arn:aws:iam::<account>:<resource>", its resource part split at "/".
\* create_role is called without a Path, so IAM files the role under "/":
\* no path segment between "role" and the name.
DefaultPath == <<>>
IamRoleArn(path, name) ==
    [account |-> AccountId, resource |-> <<"role">> \o path \o <<name>>]
\* an ARN formatted with a path IAM did not use (C3)
FormatRoleArn_ServiceRole(name) ==
    [account |-> AccountId, resource |-> <<"role", "service-role", name>>]

\* f"arn:aws:iam::{account_id}:role/{role_name}"
FormatRoleArn(name) == [account |-> AccountId, resource |-> <<"role", name>>]
\* a helper without a return statement
None == "None"

\* value returned when the read finds the resource
ReturnFound(k) == IF k = "role" THEN FormatRoleArn(RoleName) ELSE None
\* value returned after the create call
ReturnCreated(k) == IF k = "role" THEN IamRoleArn(DefaultPath, RoleName) ELSE None

OpRead(k) ==
    /\ opPc = "idle"
    /\ Len(yielded[k]) < EnsureCalls
    /\ IF res[k].exists
       THEN /\ yielded' = Yield(k, ReturnFound(k), FALSE)
            /\ UNCHANGED <<opPc, opKind>>
       ELSE /\ opPc' = "create"
            /\ opKind' = k
            /\ UNCHANGED yielded
    /\ UNCHANGED <<res, wgStatus, crState, crPending, ldVars, pVars, s1Vars, s2Vars, sqlVars, jobVars, dplVars>>

OpCreate(k) ==
    /\ opPc = "create"
    /\ opKind = k
    /\ res' = [res EXCEPT ![k] = Resource(DesiredConfig(0), 0)]
    /\ yielded' = Yield(k, ReturnCreated(k), TRUE)
    /\ opPc' = "idle"
    /\ UNCHANGED <<opKind, wgStatus, crState, crPending, ldVars, pVars, s1Vars, s2Vars, sqlVars, jobVars, dplVars>>

create_role_if_not_exists == OpRead("role") \/ OpCreate("role")
create_or_update_glue_job == OpRead("job") \/ OpCreate("job")
create_eventbridge_rule   == OpRead("rule") \/ OpCreate("rule")

\* the scripts have been run; the pipeline goes live afterwards
OpDone == opPc = "idle" /\ \A k \in ScriptKinds : Len(yielded[k]) = EnsureCalls

(***************************************************************************)
(* Exceptions and the handlers' outermost except clauses.                  *)
(***************************************************************************)
\* the classes an exception is an instance of
Mro(exc) ==
    CASE exc = "ValueError"   -> {"ValueError", "Exception", "BaseException"}
      [] exc = "KeyError"     -> {"KeyError", "LookupError", "Exception", "BaseException"}
      [] exc = "TypeError"    -> {"TypeError", "Exception", "BaseException"}
      [] exc = "RuntimeError" -> {"RuntimeError", "Exception", "BaseException"}
      [] exc = "OSError"      -> {"OSError", "Exception", "BaseException"}
      [] exc = "TimeoutError" -> {"TimeoutError", "OSError", "Exception", "BaseException"}
      [] exc = "EndpointConnectionError" ->
             {"EndpointConnectionError", "BotoCoreError", "Exception", "BaseException"}
      [] OTHER -> {exc, "ClientError", "Exception", "BaseException"}

\* what a service call may raise for reasons of its own
ServiceErrors == {"ClientError", "AccessDeniedException", "EntityNotFoundException",
                  "EndpointConnectionError"}

\* an outer clause that catches the service's errors only (C13)
except_Exception_ClientError(exc) == "ClientError" \in Mro(exc)

\* except Exception as e:
except_Exception(exc) == "Exception" \in Mro(exc)

(***************************************************************************)
(* Loader Stage (lambda_3.lambda_handler).  One action per external call;  *)
(* pc[i] is the call the invocation in slot i makes next.                  *)
(***************************************************************************)
Settings == {"BUCKET_NAME", "CRAWLER_NAME", "DATABASE_NAME", "GLUE_CRAWLER_ROLE",
             "REDSHIFT_NAMESPACE", "REDSHIFT_WORKGROUP", "REDSHIFT_DATABASE",
             "REDSHIFT_USER", "REDSHIFT_PASSWORD"}

\* the fact table truncated first (C1)
tables_FactFirst == <<"fact_sales", "dim_product", "dim_date">>

ddl_statements == <<"dim_product", "dim_date", "fact_sales">>

tables == <<"dim_product", "dim_date", "fact_sales">>

copy_statements == <<"dim_product", "dim_date", "fact_sales">>

Active(j) == pc[j] \notin {"idle", "done"}

\* return {"status": r, ...}: the invocation ends and its locals are gone
Finish(i, r, why) ==
    /\ pc' = [pc EXCEPT ![i] = "done"]
    /\ resp' = [resp EXCEPT ![i] = r]
    /\ cause' = [cause EXCEPT ![i] = why]
    /\ waited' = [waited EXCEPT ![i] = 0]
    /\ idx' = [idx EXCEPT ![i] = 1]
    /\ missing' = [missing EXCEPT ![i] = "none"]
    /\ elapsed' = [elapsed EXCEPT ![i] = 0]

\* an exception leaves the try block: the outer clause returns the error
\* response if it catches it, else the exception leaves the handler
Raise(i, exc, why) ==
    IF except_Exception(exc)
    THEN Finish(i, "error", why)
    ELSE /\ pc' = [pc EXCEPT ![i] = "escaped"]
         /\ waited' = [waited EXCEPT ![i] = 0]
         /\ idx' = [idx EXCEPT ![i] = 1]
         /\ missing' = [missing EXCEPT ![i] = "none"]
         /\ elapsed' = [elapsed EXCEPT ![i] = 0]
         /\ UNCHANGED <<resp, cause>>

\* on to the next step, whose loop counters start afresh
Goto(i, p) ==
    /\ pc' = [pc EXCEPT ![i] = p]
    /\ waited' = [waited EXCEPT ![i] = 0]
    /\ idx' = [idx EXCEPT ![i] = 1]
    /\ UNCHANGED <<resp, cause, missing, elapsed>>

\* the platform ends the invocation: no response, nothing caught
Terminate(i) ==
    /\ pc' = [pc EXCEPT ![i] = "terminated"]
    /\ waited' = [waited EXCEPT ![i] = 0]
    /\ idx' = [idx EXCEPT ![i] = 1]
    /\ missing' = [missing EXCEPT ![i] = "none"]
    /\ elapsed' = [elapsed EXCEPT ![i] = 0]
    /\ UNCHANGED <<resp, cause>>

\* time.sleep(poll_interval); waited += poll_interval.  The calls of the
\* invocation take time too, so that an invocation whose sleeps alone add up
\* to the ceiling has reached it before the last of them ends.
Sleep(i, w) ==
    IF Ceiling > 0 /\ elapsed[i] + (w - waited[i]) >= Ceiling
    THEN Terminate(i)
    ELSE /\ waited' = [waited EXCEPT ![i] = w]
         /\ elapsed' = [elapsed EXCEPT ![i] =
                            IF Ceiling > 0 THEN @ + (w - waited[i]) ELSE @]
         /\ UNCHANGED <<pc, resp, cause, idx, missing>>

\* the next element of the list a `for` loop runs over
NextElement(i) ==
    /\ idx' = [idx EXCEPT ![i] = @ + 1]
    /\ UNCHANGED <<pc, resp, cause, waited, missing, elapsed>>

Called(i, c, a) == log' = [log EXCEPT ![i] = Append(@, [call |-> c, arg |-> a])]

\* a poll loop is one entry of the log, however many status checks it makes
CalledOnce(i, c) ==
    IF log[i] # <<>> /\ log[i][Len(log[i])].call = c
    THEN UNCHANGED log
    ELSE Called(i, c, "-")

\* an invocation that takes up the work at the call its predecessor in the
\* slot failed at (C20)
Invoke_Resumes(i) ==
    /\ pc[i] \in {"idle", "done"}
    /\ OpDone
    /\ runs < MaxRuns
    /\ \A j \in Slots : j < i => pc[j] # "idle"
    /\ runs' = runs + 1
    /\ inv' = [inv EXCEPT ![i] = runs + 1]
    /\ \E m \in Settings \cup {"none"} : missing' = [missing EXCEPT ![i] = m]
    /\ atStart' = [atStart EXCEPT ![i] = {k \in LoaderKinds : res[k].exists}]
    /\ pc' = [pc EXCEPT ![i] =
                IF resp[i] = "error" /\ log[i][Len(log[i])].call # "get_caller_identity"
                THEN log[i][Len(log[i])].call
                ELSE "begin"]
    /\ resp' = [resp EXCEPT ![i] = "none"]
    /\ cause' = [cause EXCEPT ![i] = "none"]
    /\ log' = [log EXCEPT ![i] = <<>>]
    /\ UNCHANGED <<acctVars, opVars, waited, idx, elapsed, pVars, s1Vars, s2Vars, sqlVars, jobVars, dplVars>>

\* The platform starts the handler in slot i, with a fresh trace.  Slots are
\* taken in order (they are interchangeable).
Invoke(i) ==
    /\ pc[i] \in {"idle", "done"}
    /\ OpDone
    /\ runs < MaxRuns
    /\ \A j \in Slots : j < i => pc[j] # "idle"
    /\ runs' = runs + 1
    /\ inv' = [inv EXCEPT ![i] = runs + 1]
    /\ \E m \in Settings \cup {"none"} : missing' = [missing EXCEPT ![i] = m]
    /\ atStart' = [atStart EXCEPT ![i] = {k \in LoaderKinds : res[k].exists}]
    /\ pc' = [pc EXCEPT ![i] = "begin"]
    /\ resp' = [resp EXCEPT ![i] = "none"]
    /\ cause' = [cause EXCEPT ![i] = "none"]
    /\ log' = [log EXCEPT ![i] = <<>>]
    /\ UNCHANGED <<acctVars, opVars, waited, idx, elapsed, pVars, s1Vars, s2Vars, sqlVars, jobVars, dplVars>>

\* a handler that ensures the workgroup before anything else (C29)
Begin_WorkgroupFirst(i) ==
    /\ pc[i] = "begin"
    /\ Called(i, "get_caller_identity", "-")
    /\ IF missing[i] # "none"
       THEN Raise(i, "KeyError", "config")
       ELSE Goto(i, "get_workgroup")
    /\ UNCHANGED <<acctVars, opVars, runs, inv, atStart, pVars, s1Vars, s2Vars, sqlVars, jobVars, dplVars>>

\* a handler that reads each setting where it first uses it (C26)
Begin_ReadsLate(i) ==
    /\ pc[i] = "begin"
    /\ Called(i, "get_caller_identity", "-")
    /\ Goto(i, "get_namespace")
    /\ UNCHANGED <<acctVars, opVars, runs, inv, atStart, pVars, s1Vars, s2Vars, sqlVars, jobVars, dplVars>>

\* sts.get_caller_identity(), then the nine os.environ[...] reads
Begin(i) ==
    /\ pc[i] = "begin"
    /\ Called(i, "get_caller_identity", "-")
    /\ IF missing[i] # "none"
       THEN Raise(i, "KeyError", "config")
       ELSE Goto(i, "get_namespace")
    /\ UNCHANGED <<acctVars, opVars, runs, inv, atStart, pVars, s1Vars, s2Vars, sqlVars, jobVars, dplVars>>

GetPc(k) ==
    CASE k = "namespace" -> "get_namespace"
      [] k = "workgroup" -> "get_workgroup"
      [] k = "database"  -> "get_database"
      [] k = "crawler"   -> "get_crawler"

CreatePc(k) ==
    CASE k = "namespace" -> "create_namespace"
      [] k = "workgroup" -> "create_workgroup"
      [] k = "database"  -> "create_database"
      [] k = "crawler"   -> "create_crawler"

AfterPc(k) ==
    CASE k = "namespace" -> "get_workgroup"
      [] k = "workgroup" -> "wait_workgroup"
      [] k = "database"  -> "get_crawler"
      [] k = "crawler"   -> "start_crawler"

\* the resource a name denotes, as later steps of the invocation meet it
Identity(r) == [cfg |-> r.cfg, by |-> r.by]

\* a read that brings the resource found in line with the caller's desired
\* configuration (C5)
EnsureGet_Reconcile(i, k) ==
    /\ pc[i] = GetPc(k)
    /\ Called(i, GetPc(k), "-")
    /\ IF res[k].exists
       THEN /\ yielded' = Yield(k, Identity(res[k]), FALSE)
            /\ res' = [res EXCEPT ![k].cfg = DesiredConfig(inv[i])]
            /\ Goto(i, AfterPc(k))
       ELSE /\ UNCHANGED <<yielded, res>>
            /\ Goto(i, CreatePc(k))
    /\ UNCHANGED <<wgStatus, crState, crPending, opVars, runs, inv, atStart,
                   pVars, s1Vars, s2Vars, sqlVars, jobVars, dplVars>>

\* try: get_<k>(...)  except <not found>: -> the create branch
EnsureGet(i, k) ==
    /\ pc[i] = GetPc(k)
    /\ Called(i, GetPc(k), "-")
    /\ IF res[k].exists
       THEN /\ yielded' = Yield(k, Identity(res[k]), FALSE)
            /\ Goto(i, AfterPc(k))
       ELSE /\ UNCHANGED yielded
            /\ Goto(i, CreatePc(k))
    /\ UNCHANGED <<res, wgStatus, crState, crPending, opVars, runs, inv, atStart,
                   pVars, s1Vars, s2Vars, sqlVars, jobVars, dplVars>>

\* The create call in the except branch.  The service rejects a create of a
\* name that exists with a conflict / already-exists error; no handler around
\* the create call catches it, so it reaches the outer `except Exception`.
EnsureCreate(i, k) ==
    /\ pc[i] = CreatePc(k)
    /\ Called(i, CreatePc(k), "-")
    /\ IF res[k].exists
       THEN /\ Raise(i, "ConflictException", "conflict")
            /\ UNCHANGED <<res, wgStatus, crState, yielded>>
       ELSE /\ res' = [res EXCEPT ![k] = Resource(DesiredConfig(inv[i]), inv[i])]
            /\ wgStatus' = IF k = "workgroup" THEN "CREATING" ELSE wgStatus
            /\ crState' = IF k = "crawler" THEN "READY" ELSE crState
            /\ yielded' = Yield(k, Identity(Resource(DesiredConfig(inv[i]), inv[i])), TRUE)
            /\ Goto(i, AfterPc(k))
    /\ UNCHANGED <<crPending, opVars, runs, inv, atStart, pVars, s1Vars, s2Vars, sqlVars, jobVars, dplVars>>

EnsureNamespace(i) == EnsureGet(i, "namespace") \/ EnsureCreate(i, "namespace")
EnsureWorkgroup(i) == EnsureGet(i, "workgroup") \/ EnsureCreate(i, "workgroup")
EnsureDatabase(i)  == EnsureGet(i, "database") \/ EnsureCreate(i, "database")
EnsureCrawler(i)   == EnsureGet(i, "crawler") \/ EnsureCreate(i, "crawler")

\* wait_for_workgroup_available(workgroup, max_seconds=900, poll_interval=15):
\* one turn of its loop
PollWorkgroup(i) ==
    /\ pc[i] = "wait_workgroup"
    /\ CalledOnce(i, "wait_workgroup")
    /\ LET r == wait_for_workgroup_available(wgStatus, waited[i],
                                             WorkgroupMaxSeconds, PollInterval)
       IN  CASE r.outcome = "return"  -> Goto(i, "get_database")
             [] r.outcome = "timeout" -> Raise(i, "TimeoutError", "timeout")
             [] r.outcome = "sleep"   -> Sleep(i, r.waited)
    /\ UNCHANGED <<acctVars, opVars, runs, inv, atStart, pVars, s1Vars, s2Vars, sqlVars, jobVars, dplVars>>

\* a start whose rejection is logged and passed over (C17)
StartCrawler_Swallows(i) ==
    /\ pc[i] = "start_crawler"
    /\ Called(i, "start_crawler", "-")
    /\ crPending' = (crPending \/ crState = "READY")
    /\ Goto(i, "wait_crawler")
    /\ UNCHANGED <<res, wgStatus, crState, yielded, opVars, runs, inv, atStart,
                   pVars, s1Vars, s2Vars, sqlVars, jobVars, dplVars>>

\* glue.start_crawler(Name=crawler): rejected unless the crawler is idle
StartCrawler(i) ==
    /\ pc[i] = "start_crawler"
    /\ Called(i, "start_crawler", "-")
    /\ IF crState = "READY" /\ ~crPending
       THEN crPending' = TRUE /\ Goto(i, "wait_crawler")
       ELSE UNCHANGED crPending /\ Raise(i, "CrawlerRunningException", "start_rejected")
    /\ UNCHANGED <<res, wgStatus, crState, yielded, opVars, runs, inv, atStart,
                   pVars, s1Vars, s2Vars, sqlVars, jobVars, dplVars>>

\* a handler that goes on to the statements without waiting for the crawler
\* (C28)
PollCrawler_GoesOn(i) ==
    /\ pc[i] = "wait_crawler"
    /\ CalledOnce(i, "wait_crawler")
    /\ Goto(i, "create_table")
    /\ UNCHANGED <<acctVars, opVars, runs, inv, atStart, pVars, s1Vars, s2Vars, sqlVars, jobVars, dplVars>>

\* wait_for_crawler_ready(crawler, max_seconds=600, poll_interval=15)
PollCrawler(i) ==
    /\ pc[i] = "wait_crawler"
    /\ CalledOnce(i, "wait_crawler")
    /\ LET r == wait_for_crawler_ready(crState, waited[i],
                                       CrawlerMaxSeconds, PollInterval)
       IN  CASE r.outcome = "return"  -> Goto(i, "create_table")
             [] r.outcome = "timeout" -> Raise(i, "TimeoutError", "timeout")
             [] r.outcome = "sleep"   -> Sleep(i, r.waited)
    /\ UNCHANGED <<acctVars, opVars, runs, inv, atStart, pVars, s1Vars, s2Vars, sqlVars, jobVars, dplVars>>

\* a statement: who submitted it, its kind, its table
Statement(by, kind, table) == [by |-> by, kind |-> kind, table |-> table]

\* redshift_data.execute_statement(...): the service acknowledges the
\* statement with an identifier and executes it some time later
execute_sql(i, kind, table) ==
    /\ sqlPending' = IF table = watched
                     THEN sqlPending \cup {Statement(inv[i], kind, table)}
                     ELSE sqlPending
    /\ UNCHANGED <<watched, sqlDone, sqlFailed, tbl>>

\* a loop that submits its truncate and load statements only while no other
\* invocation is between its first truncate and its last load (C14)
SubmitLoop_Locked(i, here, list, next) ==
    /\ pc[i] = here
    /\ here \in {"truncate", "copy"} =>
          \A j \in Slots \ {i} : ~(pc[j] = "copy" \/ (pc[j] = "truncate" /\ idx[j] > 1))
    /\ Called(i, here, list[idx[i]])
    /\ IF idx[i] < Len(list)
       THEN NextElement(i)
       ELSE Goto(i, next)
    /\ execute_sql(i, here, list[idx[i]])
    /\ UNCHANGED <<acctVars, opVars, runs, inv, atStart, pVars, s1Vars, s2Vars, jobVars, dplVars>>

\* a loop that submits a statement only when the invocation's earlier
\* statements have finished (C16)
SubmitLoop_Waits(i, here, list, next) ==
    /\ pc[i] = here
    /\ \A s \in sqlPending : s.by # inv[i]
    /\ Called(i, here, list[idx[i]])
    /\ IF idx[i] < Len(list)
       THEN NextElement(i)
       ELSE Goto(i, next)
    /\ execute_sql(i, here, list[idx[i]])
    /\ UNCHANGED <<acctVars, opVars, runs, inv, atStart, pVars, s1Vars, s2Vars, jobVars, dplVars>>

\* a loop that leaves out the last element (C6)
SubmitLoop_StopsEarly(i, here, list, next) ==
    /\ pc[i] = here
    /\ Called(i, here, list[idx[i]])
    /\ IF idx[i] < Len(list) - 1
       THEN NextElement(i)
       ELSE Goto(i, next)
    /\ execute_sql(i, here, list[idx[i]])
    /\ UNCHANGED <<acctVars, opVars, runs, inv, atStart, pVars, s1Vars, s2Vars, jobVars, dplVars>>

\* one turn of a `for` loop over `list` that submits one statement per element
\* through execute_sql and does not wait for it
SubmitLoop(i, here, list, next) ==
    /\ pc[i] = here
    /\ Called(i, here, list[idx[i]])
    /\ IF idx[i] < Len(list)
       THEN NextElement(i)
       ELSE Goto(i, next)
    /\ execute_sql(i, here, list[idx[i]])
    /\ UNCHANGED <<acctVars, opVars, runs, inv, atStart, pVars, s1Vars, s2Vars, jobVars, dplVars>>

SubmitDDL(i)      == SubmitLoop(i, "create_table", ddl_statements, "truncate")
SubmitTruncate(i) == SubmitLoop(i, "truncate", tables, "copy")
SubmitCopy(i)     == SubmitLoop(i, "copy", copy_statements, "return")

\* a return that first waits for the invocation's statements to finish and
\* raises if one of them failed (C15)
ReturnSuccess_ChecksStatements(i) ==
    /\ pc[i] = "return"
    /\ \A s \in sqlPending : s.by # inv[i]
    /\ Called(i, "return", "-")
    /\ IF \E s \in sqlFailed : s.by = inv[i]
       THEN Raise(i, "RuntimeError", "statement")
       ELSE Finish(i, "success", "none")
    /\ UNCHANGED <<acctVars, opVars, runs, inv, atStart, pVars, s1Vars, s2Vars, sqlVars, jobVars, dplVars>>

\* return {"status": "success"}
ReturnSuccess(i) ==
    /\ pc[i] = "return"
    /\ Called(i, "return", "-")
    /\ Finish(i, "success", "none")
    /\ UNCHANGED <<acctVars, opVars, runs, inv, atStart, pVars, s1Vars, s2Vars, sqlVars, jobVars, dplVars>>

\* The service call about to be made raises (throttling, access denied, ...):
\* the outer `except Exception` turns it into the error response.
CallSites == {"begin", "get_namespace", "create_namespace", "get_workgroup",
              "create_workgroup", "wait_workgroup", "get_database",
              "create_database", "get_crawler", "create_crawler",
              "start_crawler", "wait_crawler", "create_table", "truncate", "copy"}

\* a failed create call is tried again (C19)
CallRaises_RetriesCreate(i) ==
    /\ pc[i] \in CallSites
    /\ CASE pc[i] \in {"wait_workgroup", "wait_crawler"} -> CalledOnce(i, pc[i])
         [] pc[i] = "begin" -> Called(i, "get_caller_identity", "-")
         [] pc[i] = "create_table" -> Called(i, pc[i], ddl_statements[idx[i]])
         [] pc[i] = "truncate" -> Called(i, pc[i], tables[idx[i]])
         [] pc[i] = "copy" -> Called(i, pc[i], copy_statements[idx[i]])
         [] OTHER -> Called(i, pc[i], "-")
    /\ IF pc[i] \in {"create_namespace", "create_workgroup", "create_database",
                     "create_crawler"}
       THEN UNCHANGED <<pc, resp, cause, waited, idx, missing, elapsed>>
       ELSE \E exc \in ServiceErrors : Raise(i, exc, "fault")
    /\ UNCHANGED <<acctVars, opVars, runs, inv, atStart, pVars, s1Vars, s2Vars, sqlVars, jobVars, dplVars>>

CallRaises(i) ==
    /\ pc[i] \in CallSites
    /\ CASE pc[i] \in {"wait_workgroup", "wait_crawler"} -> CalledOnce(i, pc[i])
         [] pc[i] = "begin" -> Called(i, "get_caller_identity", "-")
         [] pc[i] = "create_table" -> Called(i, pc[i], ddl_statements[idx[i]])
         [] pc[i] = "truncate" -> Called(i, pc[i], tables[idx[i]])
         [] pc[i] = "copy" -> Called(i, pc[i], copy_statements[idx[i]])
         [] OTHER -> Called(i, pc[i], "-")
    /\ \E exc \in ServiceErrors : Raise(i, exc, "fault")
    /\ UNCHANGED <<acctVars, opVars, runs, inv, atStart, pVars, s1Vars, s2Vars, sqlVars, jobVars, dplVars>>

lambda_handler_3(i) ==
    \/ Begin(i)
    \/ EnsureNamespace(i)
    \/ EnsureWorkgroup(i)
    \/ PollWorkgroup(i)
    \/ EnsureDatabase(i)
    \/ EnsureCrawler(i)
    \/ StartCrawler(i)
    \/ PollCrawler(i)
    \/ SubmitDDL(i)
    \/ SubmitTruncate(i)
    \/ SubmitCopy(i)
    \/ ReturnSuccess(i)

(***************************************************************************)
(* The services' own progress.                                             *)
(***************************************************************************)
WorkgroupBecomes(s) ==
    /\ wgStatus = "CREATING"
    /\ wgStatus' = s
    /\ UNCHANGED <<res, crState, crPending, yielded, opVars, ldVars, pVars, s1Vars, s2Vars, sqlVars, jobVars, dplVars>>

WorkgroupAvailable == WorkgroupBecomes("AVAILABLE")
WorkgroupFailed    == WorkgroupBecomes("FAILED")

CrawlBegins ==
    /\ crState = "READY" /\ crPending
    /\ crState' = "RUNNING" /\ crPending' = FALSE
    /\ UNCHANGED <<res, wgStatus, yielded, opVars, ldVars, pVars, s1Vars, s2Vars, sqlVars, jobVars, dplVars>>

CrawlStops ==
    /\ crState = "RUNNING"
    /\ crState' = "STOPPING"
    /\ UNCHANGED <<res, wgStatus, crPending, yielded, opVars, ldVars, pVars, s1Vars, s2Vars, sqlVars, jobVars, dplVars>>

CrawlEnds ==
    /\ crState = "STOPPING"
    /\ crState' = "READY"
    /\ UNCHANGED <<res, wgStatus, crPending, yielded, opVars, ldVars, pVars, s1Vars, s2Vars, sqlVars, jobVars, dplVars>>

\* ---- the parts of the model at rest ----
AccountInit ==
    /\ res = [k \in Kinds |-> Absent]
    /\ wgStatus = "NONE"
    /\ crState = "NONE"
    /\ crPending = FALSE
    /\ yielded = [k \in Kinds |-> <<>>]

OperatorInit ==
    /\ opPc = "idle"
    /\ opKind = "role"

\* no setup script and no Loader Stage invocation takes part
OperatorOff ==
    /\ opPc = "off"
    /\ opKind = "role"

LoaderInit ==
    /\ runs = 0
    /\ pc = [i \in Slots |-> "idle"]
    /\ inv = [i \in Slots |-> 0]
    /\ missing = [i \in Slots |-> "none"]
    /\ waited = [i \in Slots |-> 0]
    /\ idx = [i \in Slots |-> 1]
    /\ log = [i \in Slots |-> <<>>]
    /\ resp = [i \in Slots |-> "none"]
    /\ cause = [i \in Slots |-> "none"]
    /\ atStart = [i \in Slots |-> {}]
    /\ elapsed = [i \in Slots |-> 0]

PollerOff ==
    /\ pWhich = "none" /\ pMax = 0 /\ pInt = 1 /\ pWaited = 0
    /\ pPolls = 0 /\ pSleeps = 0 /\ pResult = "none" /\ pSeen = FALSE

Stage1Off ==
    /\ s1Event = <<>> /\ s1Job = "" /\ s1Pc = "off" /\ s1Calls = <<>>
    /\ s1Returned = "None" /\ s1Resp = [status |-> "none", JobRunId |-> "absent"]

SqlOff ==
    /\ watched = "none" /\ sqlPending = {} /\ sqlDone = {} /\ sqlFailed = {}
    /\ tbl = [exists |-> FALSE, loads |-> 0]

Stage2Off ==
    /\ s2Event = <<>> /\ s2Bucket = "" /\ s2Pc = "off" /\ s2Idx = 1
    /\ s2Runs = <<>> /\ s2Skipped = {} /\ s2Resp = "none"

\* a notification configuration: the entries of each kind, in order; a
\* response carries ResponseMetadata besides
Configuration(lambdas, topics, queues) ==
    [ResponseMetadata |-> FALSE, LambdaFunctionConfigurations |-> lambdas,
     TopicConfigurations |-> topics, QueueConfigurations |-> queues]

\* the wiring functions are not run
WiringOff ==
    /\ perms = {}
    /\ notif = Configuration(<<>>, <<>>, <<>>)
    /\ wPc = "off"
    /\ wCfg = notif
    /\ wLog = <<>>
    /\ wBefore = notif
    /\ wRuns = 0

\* no function's deployment is followed
DeployOff ==
    /\ fn = [f \in FunctionNames |-> NoFunction]
    /\ dPc = "off"
    /\ dArgs = [function_name |-> "", handler |-> "", zip_file |-> "",
                timeout |-> 0, env_vars |-> {}]
    /\ dLog = <<>>
    /\ dBefore = fn
    /\ dSame = FALSE
    /\ dCalls = 0
    /\ WiringOff

\* no batch job runs and no timer fires
JobOff ==
    /\ jPc = [r \in SplitRuns |-> "none"]
    /\ jLog = [r \in SplitRuns |-> <<>>]
    /\ jStarted = 0
    /\ ticks = 0
    /\ tPc = "none"
    /\ objects = <<>>
    /\ delivered = 0
    /\ s2Lost = 0

(***************************************************************************)
(* Spec: one invocation at a time; the services may be slow, fail, reject. *)
(***************************************************************************)
Init ==
    /\ AccountInit /\ OperatorInit /\ LoaderInit /\ JobOff /\ DeployOff
    /\ PollerOff /\ Stage1Off /\ Stage2Off /\ SqlOff

Next ==
    \/ create_role_if_not_exists
    \/ create_or_update_glue_job
    \/ create_eventbridge_rule
    \/ Invoke(Solo)
    \/ lambda_handler_3(Solo)
    \/ CallRaises(Solo)
    \/ WorkgroupAvailable
    \/ WorkgroupFailed
    \/ CrawlBegins
    \/ CrawlStops
    \/ CrawlEnds

Spec == Init /\ [][Next]_vars

(***************************************************************************)
(* RaceSpec: overlapping invocations; every service answers a poller       *)
(* within MaxSleeps sleeps and no call fails for a reason of its own.      *)
(***************************************************************************)
Prompt == \A i \in Slots : waited[i] <= MaxSleeps * PollInterval

RaceNext ==
    \/ create_role_if_not_exists
    \/ create_or_update_glue_job
    \/ create_eventbridge_rule
    \/ \E i \in Slots : Invoke(i)
    \/ \E i \in Slots : lambda_handler_3(i) /\ Prompt'
    \/ WorkgroupAvailable
    \/ CrawlBegins
    \/ CrawlStops
    \/ CrawlEnds

RaceSpec == Init /\ [][RaceNext]_vars

(***************************************************************************)
(* SqlSpec: overlapping invocations on an account provisioned earlier      *)
(* (by caller 0), prompt services, no call failing for its own reasons;    *)
(* the SQL execution service executes the statements it acknowledged, one  *)
(* at a time and in any order.  The statements on one table are followed.  *)
(***************************************************************************)
TableStates == {[exists |-> FALSE, loads |-> 0], [exists |-> TRUE, loads |-> 1]}

SqlInit ==
    /\ res = [k \in Kinds |-> Resource(DesiredConfig(0), 0)]
    /\ wgStatus = "AVAILABLE"
    /\ crState = "READY"
    /\ crPending = FALSE
    /\ yielded = [k \in Kinds |->
                    IF k \in ScriptKinds
                    THEN [n \in 1..EnsureCalls |->
                            IF n = 1 THEN [id |-> ReturnCreated(k), created |-> TRUE]
                                     ELSE [id |-> ReturnFound(k), created |-> FALSE]]
                    ELSE <<>>]
    /\ OperatorInit /\ LoaderInit /\ JobOff /\ DeployOff /\ PollerOff /\ Stage1Off /\ Stage2Off
    /\ watched \in {tables[n] : n \in 1..Len(tables)}
    /\ sqlPending = {} /\ sqlDone = {} /\ sqlFailed = {}
    /\ tbl \in TableStates

\* the service comes to execute statement s
SqlExecutes(s) ==
    /\ s \in sqlPending
    /\ sqlPending' = sqlPending \ {s}
    /\ CASE s.kind = "create_table" ->      \* CREATE TABLE IF NOT EXISTS
              /\ tbl' = [exists |-> TRUE, loads |-> IF tbl.exists THEN tbl.loads ELSE 0]
              /\ sqlDone' = sqlDone \cup {s}
              /\ UNCHANGED sqlFailed
         [] s.kind = "truncate" ->          \* TRUNCATE TABLE
              IF tbl.exists
              THEN /\ tbl' = [tbl EXCEPT !.loads = 0]
                   /\ sqlDone' = sqlDone \cup {s}
                   /\ UNCHANGED sqlFailed
              ELSE /\ sqlFailed' = sqlFailed \cup {s}
                   /\ UNCHANGED <<tbl, sqlDone>>
         [] s.kind = "copy" ->              \* COPY ... FROM 's3://.../curated/<table>/'
              IF tbl.exists
              THEN /\ tbl' = [tbl EXCEPT !.loads = @ + 1]
                   /\ sqlDone' = sqlDone \cup {s}
                   /\ UNCHANGED sqlFailed
              ELSE /\ sqlFailed' = sqlFailed \cup {s}
                   /\ UNCHANGED <<tbl, sqlDone>>
    /\ UNCHANGED <<watched, acctVars, opVars, ldVars, pVars, s1Vars, s2Vars, jobVars, dplVars>>

SqlNext ==
    \/ \E i \in Slots : Invoke(i)
    \/ \E i \in Slots : lambda_handler_3(i) /\ Prompt'
    \/ CrawlBegins
    \/ CrawlStops
    \/ CrawlEnds
    \/ \E s \in sqlPending : SqlExecutes(s)

SqlSpec == SqlInit /\ [][SqlNext]_vars

(***************************************************************************)
(* RerunSpec: as Spec, one invocation after the other from a clean         *)
(* account, with the statements on one table followed.                     *)
(***************************************************************************)
RerunInit ==
    /\ AccountInit /\ OperatorInit /\ LoaderInit /\ JobOff /\ DeployOff
    /\ PollerOff /\ Stage1Off /\ Stage2Off
    /\ watched \in {tables[n] : n \in 1..Len(tables)}
    /\ sqlPending = {} /\ sqlDone = {} /\ sqlFailed = {}
    /\ tbl = [exists |-> FALSE, loads |-> 0]

RerunNext ==
    \/ Next
    \/ \E s \in sqlPending : SqlExecutes(s)

RerunSpec == RerunInit /\ [][RerunNext]_vars

(***************************************************************************)
(* PollSpec: one poller call, any deadline and interval, any statuses.     *)
(***************************************************************************)
WorkgroupStatuses == {"CREATING", "AVAILABLE", "MODIFYING", "FAILED", "DELETING"}
CrawlerStates     == {"READY", "RUNNING", "STOPPING"}

Target(which)   == IF which = "workgroup" THEN "AVAILABLE" ELSE "READY"
Statuses(which) == IF which = "workgroup" THEN WorkgroupStatuses ELSE CrawlerStates
\* max_seconds and poll_interval as deployed (they are also the defaults)
Deployed(which) == IF which = "workgroup"
                   THEN <<WorkgroupMaxSeconds, PollInterval>>
                   ELSE <<CrawlerMaxSeconds, PollInterval>>

PollInit ==
    /\ AccountInit /\ OperatorOff /\ LoaderInit /\ JobOff /\ DeployOff /\ Stage1Off /\ Stage2Off /\ SqlOff
    /\ pWhich \in {"workgroup", "crawler"}
    /\ \E a \in ((0..MaxSecondsTry) \X (1..MaxIntervalTry)) \cup {Deployed(pWhich)} :
          pMax = a[1] /\ pInt = a[2]
    /\ pWaited = 0 /\ pPolls = 0 /\ pSleeps = 0
    /\ pResult = "running"
    /\ pSeen = FALSE

\* one turn of the poller's loop, the status source answering s
PollTurn(s) ==
    /\ pResult = "running"
    /\ pPolls' = pPolls + 1
    /\ pSeen' = (pSeen \/ s = Target(pWhich))
    /\ LET r == IF pWhich = "workgroup"
                THEN wait_for_workgroup_available(s, pWaited, pMax, pInt)
                ELSE wait_for_crawler_ready(s, pWaited, pMax, pInt)
       IN  CASE r.outcome = "return" ->
                   pResult' = "success" /\ UNCHANGED <<pSleeps, pWaited>>
             [] r.outcome = "timeout" ->
                   pResult' = "timeout" /\ UNCHANGED <<pSleeps, pWaited>>
             [] r.outcome = "sleep" ->
                   /\ pSleeps' = pSleeps + 1
                   /\ pWaited' = r.waited
                   /\ UNCHANGED pResult
    /\ UNCHANGED <<pWhich, pMax, pInt, acctVars, opVars, ldVars, s1Vars, s2Vars, sqlVars, jobVars, dplVars>>

PollNext == \E s \in Statuses(pWhich) : PollTurn(s)

PollSpec == PollInit /\ [][PollNext]_vars

(***************************************************************************)
(* Stage1Spec: lambda_1.lambda_handler over every small event payload.     *)
(* A payload is the sequence of the words in it.                           *)
(***************************************************************************)
MaxPayload == 2      \* words in an event payload

EventWords == {"Scheduled Event", "glue-split-fact-dim", "Records"}

RECURSIVE Payloads(_)
Payloads(n) == IF n = 0 THEN {<<>>}
               ELSE Payloads(n - 1) \cup
                    {Append(e, w) : e \in {x \in Payloads(n - 1) : Len(x) = n - 1},
                                    w \in EventWords}

\* response["JobRunId"] as the service sets it; "None" where the key is missing
JobRunIds == {"jr_1", "jr_2", "None"}

\* a job name taken from the payload when it carries one (C12)
GlueJobName_FromEvent(event, environ) ==
    IF \E n \in 1..Len(event) : event[n] = "glue-split-fact-dim"
    THEN "glue-split-fact-dim"
    ELSE environ

\* job_name = os.environ.get("GLUE_JOB_NAME"); "" where it is unset
GlueJobName(event, environ) == environ

Stage1Init ==
    /\ AccountInit /\ OperatorOff /\ LoaderInit /\ JobOff /\ DeployOff /\ PollerOff /\ Stage2Off /\ SqlOff
    /\ s1Event \in Payloads(MaxPayload)
    /\ s1Job \in {"", "glue-clean-transform"}
    /\ s1Pc = "start"
    /\ s1Calls = <<>>
    /\ s1Returned = "None"
    /\ s1Resp = [status |-> "none", JobRunId |-> "absent"]

\* the three except clauses; each logs and falls through to
\* return {"status": "error", "message": "Failed to start Glue job"}
S1Fail(exc) ==
    IF \/ "EntityNotFoundException" \in Mro(exc)
       \/ "AccessDeniedException" \in Mro(exc)
       \/ except_Exception(exc)
    THEN s1Pc' = "done" /\ s1Resp' = [status |-> "error", JobRunId |-> "absent"]
    ELSE s1Pc' = "escaped" /\ UNCHANGED s1Resp

\* if not job_name: raise ValueError
S1Begin ==
    /\ s1Pc = "start"
    /\ IF GlueJobName(s1Event, s1Job) = ""
       THEN S1Fail("ValueError")
       ELSE s1Pc' = "call" /\ UNCHANGED s1Resp
    /\ UNCHANGED <<s1Event, s1Job, s1Calls, s1Returned,
                   acctVars, opVars, ldVars, pVars, s2Vars, sqlVars, jobVars, dplVars>>

S1Called == Append(s1Calls, [call |-> "start_job_run",
                             JobName |-> GlueJobName(s1Event, s1Job)])

\* response = glue.start_job_run(JobName=job_name); response.get("JobRunId")
S1StartJobRun(id) ==
    /\ s1Pc = "call"
    /\ s1Calls' = S1Called
    /\ s1Returned' = id
    /\ s1Pc' = "return"
    /\ UNCHANGED <<s1Event, s1Job, s1Resp, acctVars, opVars, ldVars, pVars, s2Vars, sqlVars, jobVars, dplVars>>

\* the start request raises
S1StartRaises(exc) ==
    /\ s1Pc = "call"
    /\ s1Calls' = S1Called
    /\ S1Fail(exc)
    /\ UNCHANGED <<s1Event, s1Job, s1Returned, acctVars, opVars, ldVars, pVars, s2Vars, sqlVars, jobVars, dplVars>>

\* return {"status": "success", "JobRunId": job_run_id}
S1Return ==
    /\ s1Pc = "return"
    /\ s1Resp' = [status |-> "success", JobRunId |-> s1Returned]
    /\ s1Pc' = "done"
    /\ UNCHANGED <<s1Event, s1Job, s1Calls, s1Returned,
                   acctVars, opVars, ldVars, pVars, s2Vars, sqlVars, jobVars, dplVars>>

lambda_handler_1 ==
    \/ S1Begin
    \/ \E id \in JobRunIds : S1StartJobRun(id)
    \/ S1Return

Stage1Next ==
    \/ lambda_handler_1
    \/ \E exc \in ServiceErrors : S1StartRaises(exc)

Stage1Spec == Stage1Init /\ [][Stage1Next]_vars

(***************************************************************************)
(* Stage2Spec: lambda_2.lambda_handler over every small event.             *)
(* An object key is the sequence of its pieces, "/" and "." among them.    *)
(***************************************************************************)
TransformedPrefix == <<"transformed", "/">>      \* "transformed/"
ParquetSuffix     == <<".", "parquet">>          \* ".parquet"

Keys == { <<"transformed", "/", "part1", ".", "parquet">>,
          <<"transformed", "/", "part1", ".", "json">>,
          <<"other", "/", "part1", ".", "parquet">>,
          <<"transformed", "/", ".", "parquet">>,
          <<"transformed", "part1", ".", "parquet">>,
          <<"other", "/", "transformed", "/", "part1", ".", "parquet">>,
          <<"transformed", "/", "part1", "parquet">>,
          <<>> }

Buckets == {"dp-datawarehouse-solution-1", "another-bucket"}

\* a record of event["Records"]: well formed, or lacking ["s3"]["object"]["key"]
Records == [ok : {TRUE}, key : Keys, bucket : Buckets]
               \cup {[ok |-> FALSE, key |-> <<>>, bucket |-> "another-bucket"]}

RECURSIVE Events(_)
Events(n) == IF n = 0 THEN {<<>>}
             ELSE Events(n - 1) \cup
                  {Append(e, r) : e \in {x \in Events(n - 1) : Len(x) = n - 1}, r \in Records}

\* str.startswith / str.endswith
startswith(key, prefix) ==
    /\ Len(key) >= Len(prefix)
    /\ SubSeq(key, 1, Len(prefix)) = prefix

endswith(key, suffix) ==
    /\ Len(key) >= Len(suffix)
    /\ SubSeq(key, Len(key) - Len(suffix) + 1, Len(key)) = suffix

\* a filter that skips only a key failing both tests (C9)
Skips_Both(key) ==
    ~startswith(key, TransformedPrefix) /\ ~endswith(key, ParquetSuffix)

\* if not key.startswith("transformed/") or not key.endswith(".parquet"): continue
Skips(key) ==
    ~startswith(key, TransformedPrefix) \/ ~endswith(key, ParquetSuffix)

Stage2Init ==
    /\ AccountInit /\ OperatorOff /\ LoaderInit /\ JobOff /\ DeployOff /\ PollerOff /\ Stage1Off /\ SqlOff
    /\ s2Event \in Events(MaxRecords)
    /\ s2Bucket \in {"", "dp-datawarehouse-solution-1"}   \* BUCKET_NAME, "" if unset
    /\ s2Pc = "start"
    /\ s2Idx = 1
    /\ s2Runs = <<>>
    /\ s2Skipped = {}
    /\ s2Resp = "none"

\* a handler without the except clause: the exception leaves it and the
\* platform delivers the event again (C27)
S2Fail_Escapes(exc) ==
    s2Pc' = "escaped" /\ UNCHANGED s2Resp

\* except Exception as e: return {"status": "error", ...}
S2Fail(exc) ==
    IF except_Exception(exc)
    THEN s2Pc' = "done" /\ s2Resp' = "error"
    ELSE s2Pc' = "escaped" /\ UNCHANGED s2Resp

\* bucket = os.environ.get("BUCKET_NAME"); if not bucket: raise
S2Begin ==
    /\ s2Pc = "start"
    /\ IF s2Bucket = ""
       THEN S2Fail("OSError")
       ELSE s2Pc' = "loop" /\ UNCHANGED s2Resp
    /\ UNCHANGED <<s2Event, s2Bucket, s2Idx, s2Runs, s2Skipped,
                   acctVars, opVars, ldVars, pVars, s1Vars, sqlVars, jobVars, dplVars>>

\* one run per event, however many notifications match (C10)
StartJobRun_Once(n) ==
    IF s2Runs # <<>> THEN s2Runs
    ELSE Append(s2Runs, [record |-> n, JobName |-> "glue-split-fact-dim",
                         BUCKET_NAME |-> s2Bucket, INPUT_KEY |-> "transformed/"])

\* a start request that passes the bucket named in the notification (C11)
StartJobRun_RecordBucket(n) ==
    Append(s2Runs, [record |-> n, JobName |-> "glue-split-fact-dim",
                    BUCKET_NAME |-> s2Event[n].bucket, INPUT_KEY |-> "transformed/"])

\* glue.start_job_run(JobName=..., Arguments={...})
StartJobRun(n) ==
    Append(s2Runs, [record |-> n, JobName |-> "glue-split-fact-dim",
                    BUCKET_NAME |-> s2Bucket, INPUT_KEY |-> "transformed/"])

\* one turn of `for record in event.get("Records", [])`
S2Record ==
    /\ s2Pc = "loop"
    /\ s2Idx <= Len(s2Event)
    /\ LET record == s2Event[s2Idx]
       IN  IF ~record.ok
           THEN S2Fail("KeyError") /\ UNCHANGED <<s2Idx, s2Runs, s2Skipped>>
           ELSE /\ s2Idx' = s2Idx + 1
                /\ UNCHANGED <<s2Pc, s2Resp>>
                /\ IF Skips(record.key)
                   THEN s2Skipped' = s2Skipped \cup {s2Idx} /\ UNCHANGED s2Runs
                   ELSE s2Runs' = StartJobRun(s2Idx) /\ UNCHANGED s2Skipped
    /\ UNCHANGED <<s2Event, s2Bucket, acctVars, opVars, ldVars, pVars, s1Vars, sqlVars, jobVars, dplVars>>

\* the start request raises: the outer except returns the error response
S2StartRaises ==
    /\ s2Pc = "loop"
    /\ s2Idx <= Len(s2Event)
    /\ s2Event[s2Idx].ok
    /\ ~Skips(s2Event[s2Idx].key)
    /\ \E exc \in ServiceErrors : S2Fail(exc)
    /\ UNCHANGED <<s2Event, s2Bucket, s2Idx, s2Runs, s2Skipped,
                   acctVars, opVars, ldVars, pVars, s1Vars, sqlVars, jobVars, dplVars>>

\* return {"status": "success", ...}
S2Return ==
    /\ s2Pc = "loop"
    /\ s2Idx > Len(s2Event)
    /\ s2Pc' = "done"
    /\ s2Resp' = "success"
    /\ UNCHANGED <<s2Event, s2Bucket, s2Idx, s2Runs, s2Skipped,
                   acctVars, opVars, ldVars, pVars, s1Vars, sqlVars, jobVars, dplVars>>

Stage2Next == S2Begin \/ S2Record \/ S2StartRaises \/ S2Return

Stage2Spec == Stage2Init /\ [][Stage2Next]_vars

(***************************************************************************)
(* HandlersSpec: each of the three handlers, run on its own.               *)
(***************************************************************************)
HandlersInit == Init \/ Stage1Init \/ Stage2Init

HandlersNext == Next \/ Stage1Next \/ Stage2Next

HandlersSpec == HandlersInit /\ [][HandlersNext]_vars

(***************************************************************************)
(* SplitSpec: runs of the split job (scripts/glue/glue_split_fact_dim.py)  *)
(* that Stage 2 started, and the Loader Stage invocations they ask for.    *)
(* A run is the script executed top to bottom; an exception that nothing   *)
(* catches ends the run as failed.                                         *)
(***************************************************************************)
\* the three curated outputs, in the order the script writes them
curated == <<"dim_product", "dim_date", "fact_sales">>

JobCall(c, a, ok) == [call |-> c, arg |-> a, ok |-> ok]

\* start requests the batch engine accepted so far, over all Stage 2 invocations
SplitRequests == jStarted + Len(s2Runs)

Launched == {r \in SplitRuns : jPc[r] # "none"}

\* write calls run r made, and the outputs whose write returned
Writes(r)  == {n \in 1..Len(jLog[r]) : jLog[r][n].call = "write"}
Written(r) == {jLog[r][n].arg : n \in {m \in Writes(r) : jLog[r][m].ok}}

\* invoke calls run r made, and those the Lambda service accepted
Invokes(r)  == {n \in 1..Len(jLog[r]) : jLog[r][n].call = "invoke"}
Accepted(r) == {n \in Invokes(r) : jLog[r][n].ok}

\* Loader Stage invocations asked for and accepted, over all runs
LoaderRequests == Cardinality({r \in SplitRuns : Accepted(r) # {}})

JobStep(r, p, c, a, ok) ==
    /\ jPc' = [jPc EXCEPT ![r] = p]
    /\ jLog' = [jLog EXCEPT ![r] = Append(@, JobCall(c, a, ok))]
    /\ UNCHANGED <<pipeVars, acctVars, opVars, ldVars, pVars, s1Vars, s2Vars, sqlVars, dplVars>>

\* the batch engine launches a run that a start request asked for
SplitBegins(r) ==
    /\ jPc[r] = "none"
    /\ \A q \in SplitRuns : q < r => jPc[q] # "none"
    /\ Cardinality(Launched) < SplitRequests
    /\ jPc' = [jPc EXCEPT ![r] = "start"]
    /\ UNCHANGED <<jLog, pipeVars, acctVars, opVars, ldVars, pVars, s1Vars, s2Vars, sqlVars, dplVars>>

\* getResolvedOptions, job.init, df = spark.read.parquet(...)
SplitRead(r) ==
    /\ jPc[r] = "start"
    /\ JobStep(r, "write", "read", "transformed/", TRUE)

\* the arguments are missing or the input cannot be read
SplitReadRaises(r) ==
    /\ jPc[r] = "start"
    /\ JobStep(r, "failed", "read", "transformed/", FALSE)

\* <output>.write.mode("overwrite").parquet("s3://{bucket}/curated/<output>/")
SplitWrite(r) ==
    /\ jPc[r] = "write"
    /\ LET n == Cardinality(Writes(r)) + 1
       IN  JobStep(r, IF n = Len(curated) THEN "invoke" ELSE "write",
                   "write", curated[n], TRUE)

\* a script that ends without asking for the Loader Stage (C24)
SplitInvoke_Omitted(r) ==
    /\ jPc[r] = "invoke"
    /\ jPc' = [jPc EXCEPT ![r] = "commit"]
    /\ UNCHANGED <<jLog, pipeVars, acctVars, opVars, ldVars, pVars, s1Vars, s2Vars, sqlVars, dplVars>>

\* a write whose failure the script passes over (C21)
SplitWriteRaises_PassedOver(r) ==
    /\ jPc[r] = "write"
    /\ LET n == Cardinality(Writes(r)) + 1
       IN  JobStep(r, IF n = Len(curated) THEN "invoke" ELSE "write",
                   "write", curated[n], FALSE)

\* a write raises: nothing catches it, the run ends as failed
SplitWriteRaises(r) ==
    /\ jPc[r] = "write"
    /\ JobStep(r, "failed", "write", curated[Cardinality(Writes(r)) + 1], FALSE)

\* lambda_client.invoke(FunctionName=..., InvocationType="Event"): the service
\* queues the invocation and answers at once
SplitInvoke(r) ==
    /\ jPc[r] = "invoke"
    /\ JobStep(r, "commit", "invoke", LoaderFunction, TRUE)

\* an invoke failure that ends the run (C22)
SplitInvokeRaises_Propagates(r, exc) ==
    /\ jPc[r] = "invoke"
    /\ JobStep(r, "failed", "invoke", LoaderFunction, FALSE)

\* the client cannot be made or the invoke call raises:
\* except Exception as e: print(...)
SplitInvokeRaises(r, exc) ==
    /\ jPc[r] = "invoke"
    /\ JobStep(r, IF except_Exception(exc) THEN "commit" ELSE "failed",
               "invoke", LoaderFunction, FALSE)

\* job.commit(); the script ends
SplitCommit(r) ==
    /\ jPc[r] = "commit"
    /\ JobStep(r, "done", "commit", "-", TRUE)

SplitCommitRaises(r) ==
    /\ jPc[r] = "commit"
    /\ JobStep(r, "failed", "commit", "-", FALSE)

glue_split_fact_dim(r) ==
    \/ SplitRead(r)
    \/ SplitWrite(r)
    \/ SplitInvoke(r)
    \/ SplitCommit(r)

SplitFails(r) ==
    \/ SplitReadRaises(r)
    \/ SplitWriteRaises(r)
    \/ \E exc \in ServiceErrors : SplitInvokeRaises(r, exc)
    \/ SplitCommitRaises(r)

\* the Lambda service starts an invocation the split job asked for
LoaderInvoked == runs < LoaderRequests /\ Invoke(Solo)

\* the setup scripts have run on a clean account
ScriptsRun ==
    /\ res = [k \in Kinds |-> IF k \in ScriptKinds
                              THEN Resource(DesiredConfig(0), 0) ELSE Absent]
    /\ wgStatus = "NONE"
    /\ crState = "NONE"
    /\ crPending = FALSE
    /\ yielded = [k \in Kinds |->
                    IF k \in ScriptKinds
                    THEN [n \in 1..EnsureCalls |->
                            IF n = 1 THEN [id |-> ReturnCreated(k), created |-> TRUE]
                                     ELSE [id |-> ReturnFound(k), created |-> FALSE]]
                    ELSE <<>>]
    /\ OperatorInit

\* Stage 2 has had MaxSplitRuns start requests accepted
SplitInit ==
    /\ ScriptsRun
    /\ LoaderInit /\ PollerOff /\ Stage1Off /\ Stage2Off /\ SqlOff /\ DeployOff
    /\ jPc = [r \in SplitRuns |-> "none"]
    /\ jLog = [r \in SplitRuns |-> <<>>]
    /\ jStarted = MaxSplitRuns
    /\ ticks = 0
    /\ tPc = "none"
    /\ objects = <<>>
    /\ delivered = 0
    /\ s2Lost = 0

SplitNext ==
    \/ \E r \in SplitRuns : SplitBegins(r)
    \/ \E r \in SplitRuns : glue_split_fact_dim(r)
    \/ \E r \in SplitRuns : SplitFails(r)
    \/ LoaderInvoked
    \/ lambda_handler_3(Solo)
    \/ WorkgroupAvailable
    \/ CrawlBegins
    \/ CrawlStops
    \/ CrawlEnds

SplitSpec == SplitInit /\ [][SplitNext]_vars

(***************************************************************************)
(* PipeSpec: the chain of stages.  A timer tick invokes Stage 1, the        *)
(* transform job run it starts writes objects under transformed/, the      *)
(* bucket notification hands them to Stage 2, the split job runs Stage 2   *)
(* starts invoke the Loader Stage.  One refresh cycle at a time: the timer *)
(* fires again when the cycle before it has come to rest.                  *)
(***************************************************************************)
MaxTicks   == 1      \* timer ticks in one behaviour
MaxObjects == 2      \* objects one transform job run writes

DeployedBucket == "dp-datawarehouse-solution-1"
DeployedJob    == "glue-clean-transform"

\* keys df.write...parquet(TRANSFORMED_PATH) leaves: part files and a marker
TransformKeys == { <<"transformed", "/", "part1", ".", "parquet">>,
                   <<"transformed", "/", "_SUCCESS">> }

RECURSIVE KeySeqs(_)
KeySeqs(n) == IF n = 0 THEN {<<>>}
              ELSE KeySeqs(n - 1) \cup
                   {Append(e, k) : e \in {x \in KeySeqs(n - 1) : Len(x) = n - 1},
                                   k \in TransformKeys}

\* keys of a sequence that pass the Stage 2 filter
MatchCount(keys) == Cardinality({n \in 1..Len(keys) : ~Skips(keys[n])})

\* what a completed write leaves: at least one part file
TransformOutputs == {o \in KeySeqs(MaxObjects) : MatchCount(o) >= 1}

\* the notifications Stage 2 was handed and did not get to
Unhandled == MatchCount([n \in 1..(Len(s2Event) - s2Idx + 1) |->
                            s2Event[s2Idx + n - 1].key])

CycleAtRest ==
    /\ s1Pc \in {"off", "done", "escaped"}
    /\ tPc \in {"none", "done", "failed"}
    /\ ~(tPc = "none" /\ s1Resp.status = "success")
    /\ delivered = Len(objects)
    /\ s2Pc \in {"off", "done", "escaped"}
    /\ Cardinality(Launched) = SplitRequests
    /\ \A r \in SplitRuns : jPc[r] \in {"none", "done", "failed"}
    /\ runs = LoaderRequests
    /\ \A i \in Slots : pc[i] \in {"idle", "done", "escaped"}
    /\ wgStatus # "CREATING"
    /\ crState \notin {"RUNNING", "STOPPING"} /\ ~crPending

\* rate(10 minutes): the rule invokes Stage 1 as deployed; the records of the
\* cycle before are dropped
TimerTick ==
    /\ ticks < MaxTicks
    /\ CycleAtRest
    /\ ticks' = ticks + 1
    /\ s1Event' = <<"Scheduled Event">>
    /\ s1Job' = DeployedJob
    /\ s1Pc' = "start"
    /\ s1Calls' = <<>>
    /\ s1Returned' = "None"
    /\ s1Resp' = [status |-> "none", JobRunId |-> "absent"]
    /\ tPc' = "none" /\ objects' = <<>> /\ delivered' = 0
    /\ jStarted' = 0 /\ s2Lost' = 0
    /\ s2Event' = <<>> /\ s2Bucket' = "" /\ s2Pc' = "off" /\ s2Idx' = 1
    /\ s2Runs' = <<>> /\ s2Skipped' = {} /\ s2Resp' = "none"
    /\ jPc' = [r \in SplitRuns |-> "none"]
    /\ jLog' = [r \in SplitRuns |-> <<>>]
    /\ runs' = 0
    /\ pc' = [i \in Slots |-> "idle"]
    /\ inv' = [i \in Slots |-> 0]
    /\ resp' = [i \in Slots |-> "none"]
    /\ cause' = [i \in Slots |-> "none"]
    /\ log' = [i \in Slots |-> <<>>]
    /\ atStart' = [i \in Slots |-> {}]
    /\ UNCHANGED <<missing, waited, idx, elapsed, acctVars, opVars, pVars, sqlVars,
                   dplVars>>

\* the batch engine launches the run Stage 1's start request asked for
TransformBegins ==
    /\ tPc = "none"
    /\ s1Pc = "return" \/ (s1Pc = "done" /\ s1Resp.status = "success")
    /\ tPc' = "running"
    /\ UNCHANGED <<jPc, jLog, jStarted, ticks, objects, delivered, s2Lost,
                   acctVars, opVars, ldVars, pVars, s1Vars, s2Vars, sqlVars, dplVars>>

\* df.write.mode("overwrite")...parquet(TRANSFORMED_PATH); job.commit()
TransformWrites(o) ==
    /\ tPc = "running"
    /\ tPc' = "done"
    /\ objects' = o
    /\ UNCHANGED <<jPc, jLog, jStarted, ticks, delivered, s2Lost,
                   acctVars, opVars, ldVars, pVars, s1Vars, s2Vars, sqlVars, dplVars>>

\* the run fails, having written some objects or none
TransformFails(o) ==
    /\ tPc = "running"
    /\ tPc' = "failed"
    /\ objects' = o
    /\ UNCHANGED <<jPc, jLog, jStarted, ticks, delivered, s2Lost,
                   acctVars, opVars, ldVars, pVars, s1Vars, s2Vars, sqlVars, dplVars>>

\* a notification rule that hands over one notification of a batch of
\* writes and drops the others (C23)
S3Delivers_Debounced(k) ==
    /\ s2Pc \in {"off", "done", "escaped"}
    /\ delivered + k <= Len(objects)
    /\ delivered' = Len(objects)
    /\ s2Event' = <<[ok |-> TRUE, key |-> objects[delivered + 1],
                     bucket |-> DeployedBucket]>>
    /\ jStarted' = SplitRequests
    /\ s2Lost' = s2Lost + Unhandled
    /\ s2Bucket' = DeployedBucket
    /\ s2Pc' = "start" /\ s2Idx' = 1 /\ s2Runs' = <<>>
    /\ s2Skipped' = {} /\ s2Resp' = "none"
    /\ UNCHANGED <<jPc, jLog, ticks, tPc, objects,
                   acctVars, opVars, ldVars, pVars, s1Vars, sqlVars, dplVars>>

\* "Events": ["s3:ObjectCreated:*"], prefix "transformed/": the bucket hands
\* the next k notifications to a new invocation of Stage 2 as deployed
S3Delivers(k) ==
    /\ s2Pc \in {"off", "done", "escaped"}
    /\ delivered + k <= Len(objects)
    /\ delivered' = delivered + k
    /\ s2Event' = [n \in 1..k |-> [ok |-> TRUE, key |-> objects[delivered + n],
                                   bucket |-> DeployedBucket]]
    /\ jStarted' = SplitRequests
    /\ s2Lost' = s2Lost + Unhandled
    /\ s2Bucket' = DeployedBucket
    /\ s2Pc' = "start" /\ s2Idx' = 1 /\ s2Runs' = <<>>
    /\ s2Skipped' = {} /\ s2Resp' = "none"
    /\ UNCHANGED <<jPc, jLog, ticks, tPc, objects,
                   acctVars, opVars, ldVars, pVars, s1Vars, sqlVars, dplVars>>

PipeInit ==
    /\ ScriptsRun
    /\ LoaderInit /\ JobOff /\ DeployOff /\ PollerOff /\ Stage1Off /\ Stage2Off /\ SqlOff

PipeNext ==
    \/ TimerTick
    \/ Stage1Next
    \/ TransformBegins
    \/ \E o \in TransformOutputs : TransformWrites(o)
    \/ \E o \in KeySeqs(MaxObjects) : TransformFails(o)
    \/ \E k \in 1..MaxRecords : S3Delivers(k)
    \/ Stage2Next
    \/ \E r \in SplitRuns : SplitBegins(r)
    \/ \E r \in SplitRuns : glue_split_fact_dim(r)
    \/ \E r \in SplitRuns : SplitFails(r)

PipeSpec == PipeInit /\ [][PipeNext]_vars

(***************************************************************************)
(* LiveSpec: the chain with the Loader Stage at its end, as deployed, with *)
(* no call failing for a reason of its own and every service answering a  *)
(* poller within MaxSleeps sleeps.  The split job runs and the Loader      *)
(* Stage invocations are taken one at a time.  Each platform schedules     *)
(* what it was handed: every step that stays possible is taken in the end. *)
(***************************************************************************)
\* the Lambda service starts an invocation of the function as deployed, with
\* its nine settings
LoaderInvokedAsDeployed(i) ==
    /\ runs < LoaderRequests
    /\ Invoke(i)
    /\ missing'[i] = "none"

LoaderRuns(i) == lambda_handler_3(i) /\ Prompt'

\* the batch engine runs one run of a job at a time (MaxConcurrentRuns is
\* left at its default)
SplitBeginsInTurn(r) ==
    /\ \A q \in SplitRuns : jPc[q] \in {"none", "done", "failed"}
    /\ SplitBegins(r)

\* Stage 1, its start request accepted
Stage1Runs == S1Begin \/ S1StartJobRun("jr_1") \/ S1Return

LiveNext ==
    \/ TimerTick
    \/ Stage1Runs
    \/ TransformBegins
    \/ \E o \in TransformOutputs : TransformWrites(o)
    \/ \E k \in 1..MaxRecords : S3Delivers(k)
    \/ S2Begin \/ S2Record \/ S2Return
    \/ \E r \in SplitRuns : SplitBeginsInTurn(r)
    \/ \E r \in SplitRuns : glue_split_fact_dim(r)
    \/ LoaderInvokedAsDeployed(Solo)
    \/ LoaderRuns(Solo)
    \/ WorkgroupAvailable
    \/ CrawlBegins
    \/ CrawlStops
    \/ CrawlEnds

Fairness ==
    /\ WF_vars(TimerTick)
    /\ WF_vars(Stage1Runs)
    /\ WF_vars(TransformBegins)
    /\ WF_vars(\E o \in TransformOutputs : TransformWrites(o))
    /\ WF_vars(\E k \in 1..MaxRecords : S3Delivers(k))
    /\ WF_vars(S2Begin \/ S2Record \/ S2Return)
    /\ \A r \in SplitRuns : WF_vars(SplitBeginsInTurn(r))
    /\ \A r \in SplitRuns : WF_vars(glue_split_fact_dim(r))
    /\ WF_vars(LoaderInvokedAsDeployed(Solo))
    /\ WF_vars(LoaderRuns(Solo))
    /\ WF_vars(WorkgroupAvailable)
    /\ WF_vars(CrawlBegins)
    /\ WF_vars(CrawlStops)
    /\ WF_vars(CrawlEnds)

LiveSpec == PipeInit /\ [][LiveNext]_vars /\ Fairness

(***************************************************************************)
(* Deployment of the three functions (scripts/lambda/deploy_lambdas.py).   *)
(***************************************************************************)
LambdaRoleName == "lambda-etl-role"

\* open(zip_file, "rb").read(): the archive zip_lambda wrote from the source
\* file of the same stem
ZipBytes(zip_file) == <<"zip", zip_file>>

\* Timeout of the third deployment
LoaderTimeout == 900

\* the Environment of the third deployment: the nine settings
LoaderEnvironment ==
    {<<"BUCKET_NAME", "dp-datawarehouse-solution-1">>,
     <<"CRAWLER_NAME", "product-data-crawler">>,
     <<"DATABASE_NAME", "product_db">>,
     <<"GLUE_CRAWLER_ROLE", "glue-crawler-role">>,
     <<"REDSHIFT_NAMESPACE", "dw-namespace">>,
     <<"REDSHIFT_WORKGROUP", "dw-workgroup">>,
     <<"REDSHIFT_DATABASE", "dev">>,
     <<"REDSHIFT_USER", "awsuser">>,
     <<"REDSHIFT_PASSWORD", "Password123!">>}

\* the arguments of a call.  env_vars is None or a dict: the empty set, or
\* the set holding the dict
Deployment(name, handler, zip_file, timeout, env_vars) ==
    [function_name |-> name, handler |-> handler, zip_file |-> zip_file,
     timeout |-> timeout, env_vars |-> env_vars]

\* no call was made yet
NoDeployment == Deployment("", "", "", 0, {})

\* env_vars or {}: the dict, and the empty dict for None
OrEmpty(env_vars) == IF env_vars = {} THEN {} ELSE CHOOSE e \in env_vars : TRUE

\* the three calls of the script's main, in order
Deployments ==
    << Deployment(Stage1Function, "lambda_1.lambda_handler", "lambda_1.zip", 300,
                  {{<<"GLUE_JOB_NAME", "glue-clean-transform">>}}),
       Deployment(Stage2Function, "lambda_2.lambda_handler", "lambda_2.zip", 300,
                  {{<<"BUCKET_NAME", "dp-datawarehouse-solution-1">>}}),
       Deployment(LoaderFunction, "lambda_3.lambda_handler", "lambda_3.zip",
                  LoaderTimeout, {LoaderEnvironment}) >>

\* lambda_client.create_function(...): the function the service then holds
create_function(a, role_arn) ==
    [exists |-> TRUE, code |-> ZipBytes(a.zip_file), handler |-> a.handler,
     timeout |-> a.timeout, env |-> OrEmpty(a.env_vars), runtime |-> "python3.11",
     role |-> role_arn]

\* the script has run on an account without the three functions
FunctionsDeployed ==
    fn = [f \in FunctionNames |->
            LET n == CHOOSE n \in 1..Len(Deployments) :
                         Deployments[n].function_name = f
            IN  create_function(Deployments[n],
                                IamRoleArn(DefaultPath, LambdaRoleName))]

(***************************************************************************)
(* DeploySpec: calls of create_or_update_lambda, one after the other, on   *)
(* an account that may hold functions of the same names already.  Any of   *)
(* its service calls may raise; only the conflict raised by create_function *)
(* is caught.                                                              *)
(***************************************************************************)
MaxDeployCalls == 3

\* a function of an earlier deployment by other means: nothing in it is what
\* the script asks for
Legacy == [exists |-> TRUE, code |-> <<"zip", "legacy.zip">>,
           handler |-> "handler.main", timeout |-> 3,
           env |-> {<<"STAGE", "legacy">>}, runtime |-> "python3.9",
           role |-> IamRoleArn(<<"service-role">>, "legacy-role")]

\* the arguments tried: those of main, and each function deployed with the
\* defaults of the signature (timeout=300, env_vars=None)
DeploymentArgs ==
    {Deployments[n] : n \in 1..Len(Deployments)}
    \cup {Deployment(Deployments[n].function_name, Deployments[n].handler,
                     Deployments[n].zip_file, 300, {}) : n \in 1..Len(Deployments)}

DeployStep(p, call) ==
    /\ dPc' = p
    /\ dLog' = Append(dLog, call)
    /\ UNCHANGED <<dArgs, dBefore, dSame, dCalls, others, wireVars>>

\* the operator calls create_or_update_lambda(a...)
DeployBegins(a) ==
    /\ dPc \in {"idle", "returned", "raised"}
    /\ dCalls < MaxDeployCalls
    /\ dCalls' = dCalls + 1
    /\ dSame' = (dPc = "returned" /\ a = dArgs)
    /\ dArgs' = a
    /\ dBefore' = fn
    /\ dLog' = <<>>
    /\ dPc' = "get_role"
    /\ UNCHANGED <<fn, others, wireVars>>

\* role_arn = iam.get_role(RoleName=ROLE_NAME)["Role"]["Arn"], then the
\* archive is read
GetRole ==
    /\ dPc = "get_role"
    /\ DeployStep("create_function", "get_role")
    /\ UNCHANGED fn

RoleArn == IamRoleArn(DefaultPath, LambdaRoleName)

\* lambda_client.create_function(...): creates the function, or raises
\* ResourceConflictException if one of that name exists
CreateFunction ==
    /\ dPc = "create_function"
    /\ IF fn[dArgs.function_name].exists
       THEN DeployStep("update_function_code", "create_function") /\ UNCHANGED fn
       ELSE /\ DeployStep("returned", "create_function")
            /\ fn' = [fn EXCEPT ![dArgs.function_name] = create_function(dArgs, RoleArn)]

\* lambda_client.update_function_code(FunctionName, ZipFile)
UpdateFunctionCode ==
    /\ dPc = "update_function_code"
    /\ DeployStep("update_function_configuration", "update_function_code")
    /\ fn' = [fn EXCEPT ![dArgs.function_name].code = ZipBytes(dArgs.zip_file)]

\* an update that leaves the handler as it was (C33)
UpdateFunctionConfiguration_KeepsHandler ==
    /\ dPc = "update_function_configuration"
    /\ DeployStep("returned", "update_function_configuration")
    /\ fn' = [fn EXCEPT ![dArgs.function_name].role = RoleArn,
                        ![dArgs.function_name].timeout = dArgs.timeout,
                        ![dArgs.function_name].env = OrEmpty(dArgs.env_vars)]

\* lambda_client.update_function_configuration(FunctionName, Role, Handler,
\* Timeout, Environment)
UpdateFunctionConfiguration ==
    /\ dPc = "update_function_configuration"
    /\ DeployStep("returned", "update_function_configuration")
    /\ fn' = [fn EXCEPT ![dArgs.function_name].role = RoleArn,
                        ![dArgs.function_name].handler = dArgs.handler,
                        ![dArgs.function_name].timeout = dArgs.timeout,
                        ![dArgs.function_name].env = OrEmpty(dArgs.env_vars)]

\* the call about to be made raises something else (NoSuchEntity, a missing
\* archive, a function still being updated, ...): nothing catches it
DeployRaises ==
    /\ dPc \in {"get_role", "create_function", "update_function_code",
                "update_function_configuration"}
    /\ DeployStep("raised", dPc)
    /\ UNCHANGED fn

create_or_update_lambda ==
    \/ GetRole
    \/ CreateFunction
    \/ UpdateFunctionCode
    \/ UpdateFunctionConfiguration
    \/ DeployRaises

DeployInit ==
    /\ AccountInit /\ OperatorOff /\ LoaderInit /\ JobOff
    /\ PollerOff /\ Stage1Off /\ Stage2Off /\ SqlOff
    /\ fn \in [FunctionNames -> {NoFunction, Legacy}]
    /\ dPc = "idle" /\ dArgs = NoDeployment /\ dLog = <<>> /\ dBefore = fn
    /\ dSame = FALSE /\ dCalls = 0 /\ WiringOff

DeployNext ==
    \/ \E a \in DeploymentArgs : DeployBegins(a)
    \/ create_or_update_lambda

DeploySpec == DeployInit /\ [][DeployNext]_vars

(***************************************************************************)
(* WireSpec: add_s3_permission_to_lambda and add_s3_event_notification     *)
(* (scripts/automation/pipeline_automation.py) run again and again by one  *)
(* operator, in any order, on a bucket and a function that may carry       *)
(* notifications and grants already.  Any service call may fail.           *)
(***************************************************************************)
MaxWireRuns == 3

Region == "us-east-1"
\* f"arn:aws:lambda:{REGION}:{ACCOUNT_ID}:function:{name}"
LambdaArn(name) == [region |-> Region, account |-> AccountId, function |-> name]
lambda_arn == LambdaArn(Stage2Function)

StatementId == "s3invoke-transformed"

Notification(id, arn, prefix) ==
    [Id |-> id, LambdaFunctionArn |-> arn, Events |-> {"s3:ObjectCreated:*"},
     Prefix |-> prefix]

new_notification ==
    Notification("trigger-lambda2-on-transform", lambda_arn, TransformedPrefix)

\* entries made by other means: one for another function, one for Stage 2
OtherNotification  ==
    Notification("make-thumbnails", LambdaArn("thumbnailer"), <<"raw", "/">>)
ManualNotification ==
    Notification("added-in-console", lambda_arn, TransformedPrefix)
TopicNotification  == [Id |-> "tell-ops", TopicArn |-> "ops-topic",
                       Events |-> {"s3:ObjectRemoved:*"}]

\* the Lambda entries a bucket may start with: at most one targets Stage 2
LambdaEntriesBefore ==
    {<<>>, <<OtherNotification>>, <<new_notification>>, <<ManualNotification>>,
     <<new_notification, OtherNotification>>, <<ManualNotification, OtherNotification>>}

\* service errors other than the conflict
OtherErrorCodes == {"AccessDeniedException", "ResourceNotFoundException"}

\* str(e) of a ClientError, in words
str(code, operation) ==
    <<"An error occurred (", code, ") when calling the ", operation, " operation">>

\* word in text
Mentions(text, word) == \E n \in 1..Len(text) : text[n] = word

WireStep(p, call, error) ==
    /\ wPc' = p
    /\ wLog' = Append(wLog, [call |-> call, error |-> error])
    /\ UNCHANGED <<wBefore, wRuns, others, fnVars>>

\* the operator calls one of the two functions
WireBegins(f) ==
    /\ wPc \in {"idle", "returned", "raised", "exited"}
    /\ wRuns < MaxWireRuns
    /\ wRuns' = wRuns + 1
    /\ wPc' = f
    /\ wLog' = <<>>
    /\ wBefore' = notif
    /\ wCfg' = Configuration(<<>>, <<>>, <<>>)
    /\ UNCHANGED <<perms, notif, others, fnVars>>

\* an except clause that re-raises every ClientError (C32)
except_ClientError_Reraises(code) == "raised"

\* except ClientError as e: passed over if str(e) mentions the conflict,
\* logged and re-raised otherwise
except_ClientError(code) ==
    IF Mentions(str(code, "AddPermission"), "ResourceConflictException")
    THEN "returned"
    ELSE "raised"

\* lambda_client.add_permission(..., StatementId="s3invoke-transformed", ...):
\* the service adds the statement, or rejects an id the policy has
AddPermission ==
    /\ wPc = "add_permission"
    /\ IF StatementId \in perms
       THEN /\ WireStep(except_ClientError("ResourceConflictException"),
                        "add_permission", "ResourceConflictException")
            /\ UNCHANGED perms
       ELSE /\ WireStep("returned", "add_permission", "none")
            /\ perms' = perms \cup {StatementId}
    /\ UNCHANGED <<notif, wCfg>>

AddPermissionRaises(code) ==
    /\ wPc = "add_permission"
    /\ WireStep(except_ClientError(code), "add_permission", code)
    /\ UNCHANGED <<perms, notif, wCfg>>

\* existing_config.pop("ResponseMetadata", None)
pop_ResponseMetadata(config) == [config EXCEPT !.ResponseMetadata = FALSE]

\* any(cfg.get("LambdaFunctionArn") == lambda_arn for cfg in existing_lambdas)
already_exists(config) ==
    \E n \in 1..Len(config.LambdaFunctionConfigurations) :
        config.LambdaFunctionConfigurations[n].LambdaFunctionArn = lambda_arn

\* a configuration that holds the new entry alone (C32)
updated_config_NewOnly(config) ==
    Configuration(<<new_notification>>, <<>>, <<>>)

\* updated_config.setdefault("LambdaFunctionConfigurations", []).append(...)
updated_config(config) ==
    [config EXCEPT !.LambdaFunctionConfigurations = Append(@, new_notification)]

\* s3.get_bucket_notification_configuration(Bucket=BUCKET_NAME), down to the
\* return or to the configuration about to be put
GetNotification ==
    /\ wPc = "get_notification"
    /\ LET response == [notif EXCEPT !.ResponseMetadata = TRUE]
           existing_config == pop_ResponseMetadata(response)
       IN  IF already_exists(existing_config)
           THEN /\ WireStep("returned", "get_bucket_notification_configuration", "none")
                /\ wCfg' = existing_config
           ELSE /\ WireStep("put_notification", "get_bucket_notification_configuration", "none")
                /\ wCfg' = updated_config(existing_config)
    /\ UNCHANGED <<perms, notif>>

\* except ClientError: sys.exit(1)
GetNotificationRaises(code) ==
    /\ wPc = "get_notification"
    /\ WireStep("exited", "get_bucket_notification_configuration", code)
    /\ UNCHANGED <<perms, notif, wCfg>>

\* s3.put_bucket_notification_configuration(Bucket, NotificationConfiguration):
\* the configuration replaces the bucket's; one that carries ResponseMetadata
\* is refused before it is sent
PutNotification ==
    /\ wPc = "put_notification"
    /\ IF wCfg.ResponseMetadata
       THEN /\ WireStep("raised", "put_bucket_notification_configuration",
                        "ParamValidationError")
            /\ UNCHANGED notif
       ELSE /\ WireStep("returned", "put_bucket_notification_configuration", "none")
            /\ notif' = wCfg
    /\ UNCHANGED <<perms, wCfg>>

\* except ClientError: sys.exit(1)
PutNotificationRaises(code) ==
    /\ wPc = "put_notification"
    /\ WireStep("exited", "put_bucket_notification_configuration", code)
    /\ UNCHANGED <<perms, notif, wCfg>>

add_s3_permission_to_lambda ==
    \/ AddPermission
    \/ \E code \in OtherErrorCodes : AddPermissionRaises(code)

add_s3_event_notification ==
    \/ GetNotification
    \/ PutNotification
    \/ \E code \in OtherErrorCodes : GetNotificationRaises(code)
    \/ \E code \in OtherErrorCodes : PutNotificationRaises(code)

WireInit ==
    /\ AccountInit /\ OperatorOff /\ LoaderInit /\ JobOff
    /\ PollerOff /\ Stage1Off /\ Stage2Off /\ SqlOff
    /\ FunctionsDeployed
    /\ dPc = "off" /\ dArgs = NoDeployment /\ dLog = <<>> /\ dBefore = fn
    /\ dSame = FALSE /\ dCalls = 0
    /\ perms \in SUBSET {StatementId, "granted-in-console"}
    /\ \E l \in LambdaEntriesBefore, t \in {<<>>, <<TopicNotification>>} :
           notif = Configuration(l, t, <<>>)
    /\ wPc = "idle"
    /\ wCfg = Configuration(<<>>, <<>>, <<>>)
    /\ wLog = <<>>
    /\ wBefore = notif
    /\ wRuns = 0

WireNext ==
    \/ \E f \in {"add_permission", "get_notification"} : WireBegins(f)
    \/ add_s3_permission_to_lambda
    \/ add_s3_event_notification

WireSpec == WireInit /\ [][WireNext]_vars

(***************************************************************************)
(* CeilingSpec: Spec with the Loader Stage run as deployed, the platform    *)
(* ending an invocation whose execution time reaches the function's         *)
(* Timeout.                                                                *)
(***************************************************************************)
\* the names the function's Environment defines
EnvironmentNames(f) == {kv[1] : kv \in fn[f].env}

\* the Lambda service starts an invocation of the Loader Stage's function: a
\* setting is missing if its Environment lacks one
InvokeDeployed(i) ==
    /\ fn[LoaderFunction].exists
    /\ Invoke(i)
    /\ (missing'[i] = "none") <=> (Settings \subseteq EnvironmentNames(LoaderFunction))
    /\ missing'[i] \notin EnvironmentNames(LoaderFunction)

CeilingInit ==
    /\ ScriptsRun /\ FunctionsDeployed
    /\ dPc = "off" /\ dArgs = NoDeployment /\ dLog = <<>> /\ dBefore = fn
    /\ dSame = FALSE /\ dCalls = 0 /\ WiringOff
    /\ LoaderInit /\ JobOff /\ PollerOff /\ Stage1Off /\ Stage2Off /\ SqlOff

CeilingNext ==
    \/ InvokeDeployed(Solo)
    \/ lambda_handler_3(Solo)
    \/ CallRaises(Solo)
    \/ WorkgroupAvailable
    \/ WorkgroupFailed
    \/ CrawlBegins
    \/ CrawlStops
    \/ CrawlEnds

CeilingSpec == CeilingInit /\ [][CeilingNext]_vars

(***************************************************************************)
(* Properties of the Loader Stage and of the read-or-create helpers.       *)
(***************************************************************************)
Entry(c, a) == [call |-> c, arg |-> a]

\* the steps of one invocation, in the order of the handler's text
StepOrder ==
    <<Entry("get_caller_identity", "-"),
      Entry("get_namespace", "-"), Entry("create_namespace", "-"),
      Entry("get_workgroup", "-"), Entry("create_workgroup", "-"),
      Entry("wait_workgroup", "-"),
      Entry("get_database", "-"), Entry("create_database", "-"),
      Entry("get_crawler", "-"), Entry("create_crawler", "-"),
      Entry("start_crawler", "-"),
      Entry("wait_crawler", "-"),
      Entry("create_table", "dim_product"), Entry("create_table", "dim_date"),
      Entry("create_table", "fact_sales"),
      Entry("truncate", "dim_product"), Entry("truncate", "dim_date"),
      Entry("truncate", "fact_sales"),
      Entry("copy", "dim_product"), Entry("copy", "dim_date"),
      Entry("copy", "fact_sales"),
      Entry("return", "-")>>

CreateCalls == {"create_namespace", "create_workgroup", "create_database", "create_crawler"}
CatalogCalls == {"get_database", "create_database", "get_crawler", "create_crawler",
                 "start_crawler", "wait_crawler"}
SqlCalls == {"create_table", "truncate", "copy"}

Place(e) == CHOOSE m \in 1..Len(StepOrder) : StepOrder[m] = e
Count(L, c) == Cardinality({n \in 1..Len(L) : L[n].call = c})
Last(L) == L[Len(L)]

\* what the services did to the invocation, as opposed to what it did itself
ServiceTrouble == {"fault", "timeout", "start_rejected", "config"}

\* C1: the calls of every invocation follow the handler's one order: the trace
\* starts at the first step, every call is followed by the next step of the
\* order (a create call being left out when the read found the resource), no
\* step occurs twice, and a success response ends a trace that ran through
\* all of it; in particular create-table, truncate and bulk-load statements
\* go out group after group, each for dim_product, dim_date, fact_sales.
C1_FixedOrder ==
    \A i \in Slots :
        LET L == log[i] IN
        /\ \A n \in 1..Len(L) : \E m \in 1..Len(StepOrder) : StepOrder[m] = L[n]
        /\ L # <<>> => L[1] = StepOrder[1]
        /\ \A n \in 1..(Len(L) - 1) :
              LET a == Place(L[n])
                  b == Place(L[n + 1])
              IN  \/ b = a + 1
                  \/ b = a + 2 /\ StepOrder[a + 1].call \in CreateCalls
        /\ resp[i] = "success" => L # <<>> /\ Last(L) = StepOrder[Len(StepOrder)]

C1_Witness ==
    /\ resp[Solo] = "success"
    /\ Len(log[Solo]) = Len(StepOrder)

\* C2: when the status check made after 900 s of waiting still does not
\* report AVAILABLE, the invocation's next step is the error response, and
\* an invocation that ended in the workgroup wait's timeout has made no
\* catalog call and submitted no statement.
C2_Quiet(L) == \A n \in 1..Len(L) : L[n].call \notin CatalogCalls \cup SqlCalls

C2_Step ==
    \A i \in Slots :
        (/\ pc[i] = "wait_workgroup"
         /\ waited[i] >= WorkgroupMaxSeconds
         /\ wgStatus # "AVAILABLE"
         /\ pc'[i] # pc[i])
        => /\ pc'[i] = "done"
           /\ resp'[i] = "error"
           /\ C2_Quiet(log'[i])

C2_Ended ==
    \A i \in Slots :
        (pc[i] = "done" /\ cause[i] = "timeout" /\ Last(log[i]).call = "wait_workgroup")
        => resp[i] = "error" /\ C2_Quiet(log[i])

C3_EnsureIdempotent ==
    \A k \in Kinds :
        LET Y == yielded[k] IN
        Y # <<>> =>
            /\ Y[1].created
            /\ \A n \in 2..Len(Y) : ~Y[n].created /\ Y[n].id = Y[1].id

C3_Witness == \A k \in Kinds : Len(yielded[k]) >= 2

\* C4: an invocation whose create call is rejected because the resource
\* already exists does not answer with the error response.
C4_ConflictIsSuccess ==
    \A i \in Slots : ~(pc[i] = "done" /\ resp[i] = "error" /\ cause[i] = "conflict")

\* C5: an invocation that finds all four resources in place makes no create
\* call, no step taken while it runs changes any of the four (whose
\* configuration is not the one it desires), and unless a service fails it
\* submits the nine statements and answers success.
C5_NoCreate ==
    \A i \in Slots :
        atStart[i] = LoaderKinds =>
            /\ \A c \in CreateCalls : Count(log[i], c) = 0
            /\ \A k \in LoaderKinds : res[k].exists /\ res[k].cfg # DesiredConfig(inv[i])
            /\ (pc[i] = "done" /\ cause[i] \notin ServiceTrouble) =>
                  /\ resp[i] = "success"
                  /\ \A c \in SqlCalls : Count(log[i], c) = 3

C5_Frame ==
    \A i \in Slots :
        (Active(i) /\ atStart[i] = LoaderKinds) =>
            \A k \in LoaderKinds : res'[k] = res[k]

C5_Provisioned == [](C5_NoCreate) /\ [][C5_Frame]_vars

C5_Witness ==
    /\ pc[Solo] = "done"
    /\ atStart[Solo] = LoaderKinds
    /\ resp[Solo] = "success"
    /\ \A k \in LoaderKinds : res[k].cfg # DesiredConfig(inv[Solo])

\* C6: on a clean account and with no service failure, an invocation makes
\* one create call per resource, one crawler start, three submissions of each
\* statement group, and answers success.
C6_CleanAccount ==
    \A i \in Slots :
        (pc[i] = "done" /\ atStart[i] = {} /\ cause[i] \notin ServiceTrouble) =>
            /\ \A c \in CreateCalls : Count(log[i], c) = 1
            /\ Count(log[i], "start_crawler") = 1
            /\ \A c \in SqlCalls : Count(log[i], c) = 3
            /\ resp[i] = "success"

C6_Witness ==
    /\ pc[Solo] = "done"
    /\ atStart[Solo] = {}
    /\ resp[Solo] = "success"

(***************************************************************************)
(* Properties of the bounded pollers (PollSpec).                           *)
(***************************************************************************)
\* C7: either poller returns success at the first status check that reports
\* the target (at the very first check with no sleep at all), and it has
\* slept once after each earlier check and not after that one.
C7_ReturnsAtFirstTarget ==
    /\ pSeen => pResult = "success"
    /\ pResult = "success" => pSeen /\ pSleeps = pPolls - 1 /\ pWaited = pSleeps * pInt

C7_Witness ==
    /\ pWhich = "crawler"
    /\ pResult = "success"
    /\ pPolls = 1
    /\ pSleeps = 0

\* C8 as claimed: a poller that times out has made floor(max / interval)
\* status polls.
C8_FloorPolls == pResult = "timeout" => pPolls = pMax \div pInt

\* C8 as amended: while no status check has reported the target, the poller
\* times out exactly at its (ceil(max / interval) + 1)-th status check,
\* after ceil(max / interval) sleeps: 61 checks and 60 sleeps for 900 / 15.
CeilDiv(a, b) == (a + b - 1) \div b

C8_CeilPlusOnePolls ==
    ~pSeen =>
        /\ pPolls <= CeilDiv(pMax, pInt) + 1
        /\ pResult = "timeout" <=> pPolls = CeilDiv(pMax, pInt) + 1
        /\ pResult = "timeout" => pSleeps = CeilDiv(pMax, pInt)
        /\ pResult # "success"

C8_Witness ==
    /\ pWhich = "workgroup"
    /\ pMax = WorkgroupMaxSeconds /\ pInt = PollInterval
    /\ pResult = "timeout"
    /\ pPolls = 61 /\ pSleeps = 60

(***************************************************************************)
(* Properties of Stage 2 (Stage2Spec).                                     *)
(***************************************************************************)
\* the key reads transformed/ ... .parquet
IsTransformedParquet(key) ==
    /\ Len(key) >= 4
    /\ key[1] = "transformed" /\ key[2] = "/"
    /\ key[Len(key) - 1] = "." /\ key[Len(key)] = "parquet"

Matching == {n \in 1..Len(s2Event) :
                s2Event[n].ok /\ IsTransformedParquet(s2Event[n].key)}
Started  == {s2Runs[n].record : n \in 1..Len(s2Runs)}

\* C9: a job run is started for a notification only if its key begins with
\* transformed/ and ends with .parquet, a notification is skipped only if
\* its key does not; an invocation that answers success has started a run
\* for exactly the matching notifications and skipped all others; and a
\* configured invocation none of whose notifications match ends in success
\* with no run started.
C9_Filter ==
    /\ Started \subseteq Matching
    /\ s2Skipped \cap Matching = {}
    /\ s2Resp = "success" =>
          /\ Started = Matching
          /\ s2Skipped = (1..Len(s2Event)) \ Matching
    /\ (/\ s2Pc = "done"
        /\ s2Bucket # ""
        /\ \A n \in 1..Len(s2Event) : s2Event[n].ok
        /\ Matching = {})
       => s2Resp = "success" /\ s2Runs = <<>>

C9_Witness ==
    /\ s2Resp = "success"
    /\ Len(s2Event) = 3
    /\ s2Event[1].key = <<"transformed", "/", "part1", ".", "parquet">>
    /\ s2Event[2].key = <<"transformed", "/", "part1", ".", "json">>
    /\ s2Event[3].key = <<"other", "/", "part1", ".", "parquet">>
    /\ Started = {1}
    /\ s2Skipped = {2, 3}

\* C10: an invocation that answers success has started as many job runs as
\* the event has matching notifications, equal ones counted each, in the
\* order of the notifications.
C10_OneRunPerMatch ==
    s2Resp = "success" =>
        /\ Len(s2Runs) = Cardinality(Matching)
        /\ \A a, b \in 1..Len(s2Runs) : a < b => s2Runs[a].record < s2Runs[b].record

C10_Witness ==
    /\ s2Resp = "success"
    /\ Len(s2Event) >= 2
    /\ s2Event[1] = s2Event[2]
    /\ 1 \in Matching
    /\ Len(s2Runs) >= 2
    /\ s2Runs[1].record = 1 /\ s2Runs[2].record = 2

\* C11 as claimed: every job run carries as BUCKET_NAME the bucket of the
\* notification it was started for, and as INPUT_KEY "transformed/".
C11_TriggeringBucket ==
    \A n \in 1..Len(s2Runs) :
        /\ s2Runs[n].BUCKET_NAME = s2Event[s2Runs[n].record].bucket
        /\ s2Runs[n].INPUT_KEY = "transformed/"

\* C11 as amended: every job run carries as BUCKET_NAME the function's
\* BUCKET_NAME setting, whatever bucket its notification names, and as
\* INPUT_KEY "transformed/", whatever the notification's key.
C11_ConfiguredBucket ==
    \A n \in 1..Len(s2Runs) :
        /\ s2Runs[n].BUCKET_NAME = s2Bucket
        /\ s2Runs[n].INPUT_KEY = "transformed/"
        /\ s2Runs[n].JobName = "glue-split-fact-dim"

C11_Witness ==
    \E n \in 1..Len(s2Runs) :
        /\ s2Event[s2Runs[n].record].bucket = "another-bucket"
        /\ s2Event[s2Runs[n].record].key = <<"transformed", "/", ".", "parquet">>
        /\ s2Runs[n].BUCKET_NAME = "dp-datawarehouse-solution-1"

(***************************************************************************)
(* Properties of Stage 1 (Stage1Spec) and of the three handlers together.  *)
(***************************************************************************)
\* C12: whatever the payload, Stage 1 makes no call but one start request,
\* for the configured job; once that request is acknowledged nothing is
\* called any more and the response is success with the run identifier the
\* request returned; an error response comes only from a missing job name
\* (no call made) or from the start request raising.
C12_OneStartNoWait ==
    /\ Len(s1Calls) <= 1
    /\ \A n \in 1..Len(s1Calls) :
          s1Calls[n] = [call |-> "start_job_run", JobName |-> s1Job]
    /\ s1Pc = "return" => Len(s1Calls) = 1
    /\ s1Resp.status = "success" =>
          /\ s1Pc = "done"
          /\ Len(s1Calls) = 1
          /\ s1Resp.JobRunId = s1Returned
    /\ s1Resp.status = "error" => (s1Job = "" /\ s1Calls = <<>>) \/ Len(s1Calls) = 1
    /\ ~(s1Pc = "done" /\ s1Job # "" /\ s1Calls = <<>>)

C12_Witness ==
    /\ s1Pc = "done"
    /\ s1Event = <<"glue-split-fact-dim", "Records">>
    /\ s1Calls = <<[call |-> "start_job_run", JobName |-> "glue-clean-transform"]>>
    /\ s1Resp = [status |-> "success", JobRunId |-> "jr_2"]

\* C13: no exception leaves any of the three handlers: an invocation that
\* has ended has returned a response of status success or error, and one
\* that met an exception (missing setting, malformed record, failed service
\* call, conflict, timeout) has returned status error.
Statuses3 == {"success", "error"}

C13_NeverEscapes ==
    /\ s1Pc # "escaped"
    /\ s1Pc = "done" => s1Resp.status \in Statuses3
    /\ s2Pc # "escaped"
    /\ s2Pc = "done" => s2Resp \in Statuses3
    /\ \A i \in Slots :
          /\ pc[i] # "escaped"
          /\ pc[i] = "done" => resp[i] \in Statuses3
          /\ (pc[i] = "done" /\ cause[i] # "none") => resp[i] = "error"

C13_Witness ==
    /\ pc[Solo] = "done"
    /\ resp[Solo] = "error"
    /\ cause[Solo] = "fault"
    /\ Last(log[Solo]) = [call |-> "copy", arg |-> "fact_sales"]

(***************************************************************************)
(* Properties of the statement submissions (SqlSpec).                      *)
(***************************************************************************)
Truncate(i) == Statement(inv[i], "truncate", watched)
Load(i)     == Statement(inv[i], "copy", watched)
\* invocation i is about to submit the load of the watched table
AtLoad(i)   == pc[i] = "copy" /\ copy_statements[idx[i]] = watched

\* C14: nothing holds an invocation back from its truncate and load
\* submissions while another invocation is making its own: at every point
\* of the truncate and load loops the next submission can be made at once,
\* wherever the other invocations are.
C14_NotExcluded ==
    \A i \in Slots :
        /\ pc[i] = "truncate" => ENABLED SubmitTruncate(i)
        /\ pc[i] = "copy" => ENABLED SubmitCopy(i)

\* both invocations have made all their truncate submissions, the two
\* truncates of the watched table have executed, and both are about to
\* submit its load
C14_Witness ==
    /\ AtLoad(1) /\ AtLoad(2)
    /\ {Truncate(1), Truncate(2)} \subseteq sqlDone
    /\ tbl = [exists |-> TRUE, loads |-> 0]

\* ... and then the table holds the curated data twice
C14_LoadedTwice ==
    /\ resp[1] = "success" /\ resp[2] = "success"
    /\ {Truncate(1), Truncate(2), Load(1), Load(2)} \subseteq sqlDone
    /\ tbl.loads = 2

\* the statements invocation i has submitted on the watched table
Mine(i, S) == {s \in S : s.by = inv[i]}

\* C15: an invocation that has made its nine submissions returns at once,
\* whatever has become of its statements, and its response is success.
C15_ReturnsUnobserved ==
    \A i \in Slots :
        /\ pc[i] = "return" => ENABLED ReturnSuccess(i)
        /\ (pc[i] = "done" /\ \A c \in SqlCalls : Count(log[i], c) = 3)
              => resp[i] = "success"

\* success, with one statement failed and another not yet executed
C15_Witness ==
    \E i \in Slots :
        /\ resp[i] = "success"
        /\ Mine(i, sqlFailed) # {}
        /\ Mine(i, sqlPending) # {}

\* C16: an invocation submits its next statement while earlier ones of its
\* own are pending, and whichever statement is pending may be the next to
\* execute, whatever the order of submission.
C16_OrderNotForced ==
    /\ \A i \in Slots :
          (Mine(i, sqlPending) # {}) =>
              /\ pc[i] = "create_table" => ENABLED SubmitDDL(i)
              /\ pc[i] = "truncate" => ENABLED SubmitTruncate(i)
              /\ pc[i] = "copy" => ENABLED SubmitCopy(i)
    /\ \A s \in sqlPending : ENABLED SqlExecutes(s)

\* one invocation alone has answered success, its load of the watched table
\* executed and then its truncate: the table is left empty
C16_Witness ==
    /\ runs = 1
    /\ resp[1] = "success"
    /\ {Truncate(1), Load(1)} \subseteq sqlDone
    /\ sqlPending = {}
    /\ tbl = [exists |-> TRUE, loads |-> 0]

\* ... or its truncate and its load came before its create-table
C16_BeforeCreate ==
    /\ runs = 1
    /\ {Truncate(1), Load(1)} \subseteq sqlFailed
    /\ Statement(inv[1], "create_table", watched) \in sqlDone

(***************************************************************************)
(* Properties of the crawler steps and of failing invocations.             *)
(***************************************************************************)
\* C17: a start request made while the crawler is not idle (a crawl was
\* requested, is running or is stopping) ends the invocation at that step
\* with the error response; an invocation so ended has not polled the
\* crawler and has submitted no statement.
C17_Step ==
    \A i \in Slots :
        (/\ pc[i] = "start_crawler"
         /\ crState # "READY" \/ crPending
         /\ pc'[i] # pc[i])
        => /\ pc'[i] = "done"
           /\ resp'[i] = "error"
           /\ log'[i] = Append(log[i], Entry("start_crawler", "-"))
           /\ crState' = crState /\ crPending' = crPending

C17_Ended ==
    \A i \in Slots :
        (pc[i] = "done" /\ cause[i] = "start_rejected") =>
            /\ resp[i] = "error"
            /\ Last(log[i]).call = "start_crawler"
            /\ \A n \in 1..Len(log[i]) : log[i][n].call \notin SqlCalls \cup {"wait_crawler"}

C17_StartRejectedIsFatal == [](C17_Ended) /\ [][C17_Step]_vars

\* of two overlapping invocations, one waits for the running crawl it
\* started and the other has ended in error at its start request
C17_Witness ==
    /\ pc[1] = "wait_crawler"
    /\ crState = "RUNNING"
    /\ pc[2] = "done"
    /\ resp[2] = "error"
    /\ cause[2] = "start_rejected"

\* C18: whenever the crawler wait finds the crawler READY it is over at
\* once and the create-table step is next, also at its first check and
\* also while the crawl requested by this invocation has not begun (unless
\* the get_crawler call itself fails).
C18_Step ==
    \A i \in Slots :
        (/\ pc[i] = "wait_crawler"
         /\ crState = "READY"
         /\ pc'[i] # pc[i] \/ waited'[i] # waited[i]
         /\ cause'[i] # "fault")
        => /\ pc'[i] = "create_table"
           /\ resp'[i] = "none"

C18_AcceptsFirstReady == [][C18_Step]_vars

\* the invocation is at its first create-table, having waited no time for
\* a crawl that has still not begun
C18_Witness ==
    /\ pc[Solo] = "create_table"
    /\ idx[Solo] = 1
    /\ Last(log[Solo]).call = "wait_crawler"
    /\ crState = "READY"
    /\ crPending

\* C19: no invocation makes the create call of a resource twice, and a
\* create call that raises for a reason of the service's own is the
\* invocation's last call: the response is error and nothing was created.
C19_Step ==
    \A i \in Slots :
        (pc[i] \in CreateCalls /\ cause'[i] = "fault")
        => /\ pc'[i] = "done"
           /\ resp'[i] = "error"
           /\ log'[i] = Append(log[i], Entry(pc[i], "-"))
           /\ res' = res

C19_Once ==
    \A i \in Slots :
        /\ \A c \in CreateCalls : Count(log[i], c) <= 1
        /\ (pc[i] = "done" /\ cause[i] = "fault" /\ Last(log[i]).call \in CreateCalls)
              => resp[i] = "error"

C19_CreateOnceAndFatal == [](C19_Once) /\ [][C19_Step]_vars

C19_Witness ==
    /\ pc[Solo] = "done"
    /\ resp[Solo] = "error"
    /\ cause[Solo] = "fault"
    /\ Last(log[Solo]).call = "create_workgroup"
    /\ Count(log[Solo], "create_namespace") = 1
    /\ ~res["workgroup"].exists

(***************************************************************************)
(* Properties of invocations that follow a failed one (RerunSpec).         *)
(***************************************************************************)
Submitted == sqlPending \cup sqlDone \cup sqlFailed

EnsureAndWaitCalls == {"get_namespace", "get_workgroup", "wait_workgroup",
                       "get_database", "get_crawler", "start_crawler", "wait_crawler"}

\* C20: no step removes or changes a resource that exists or withdraws a
\* statement that was submitted, the end of an invocation in error
\* included; every invocation, the one after a failed one too, starts at
\* the first step and goes on to the namespace ensure, and has made every
\* ensure and wait step itself by the time it submits a statement.
C20_Step ==
    /\ \A k \in LoaderKinds : res[k].exists => res'[k] = res[k]
    /\ Submitted \subseteq Submitted'

C20_FromTheStart ==
    \A i \in Slots :
        LET L == log[i] IN
        /\ \A n \in 1..Len(L) : \E m \in 1..Len(StepOrder) : StepOrder[m] = L[n]
        /\ L # <<>> => L[1] = Entry("get_caller_identity", "-")
        /\ Len(L) >= 2 => L[2] = Entry("get_namespace", "-")
        /\ pc[i] \in SqlCalls \cup {"return"} =>
              \A c \in EnsureAndWaitCalls : Count(L, c) = 1

C20_NoUndoNoResume == [](C20_FromTheStart) /\ [][C20_Step]_vars

\* the second invocation is in its workgroup wait; the first created the
\* four resources and failed between its create-table and its load of the
\* watched table, and all that is still there
C20_Witness ==
    /\ inv[Solo] = 2
    /\ pc[Solo] = "wait_workgroup"
    /\ \A k \in LoaderKinds : res[k] = Resource(DesiredConfig(1), 1)
    /\ Statement(1, "create_table", watched) \in Submitted
    /\ Statement(1, "copy", watched) \notin Submitted
    /\ \A c \in CreateCalls : Count(log[Solo], c) = 0

(***************************************************************************)
(* Properties of the split job and of the chain of stages.                 *)
(***************************************************************************)
\* C21: a run of the split job makes at most one invoke call for the Loader
\* Stage, makes it only after the writes of dim_product, dim_date and
\* fact_sales have all returned, and makes none when one of its writes failed.
C21_InvokeAfterWrites ==
    \A r \in SplitRuns :
        /\ Cardinality(Invokes(r)) <= 1
        /\ \A n \in Invokes(r) :
              /\ jLog[r][n].arg = LoaderFunction
              /\ \A o \in {curated[m] : m \in 1..Len(curated)} :
                    \E w \in Writes(r) :
                        w < n /\ jLog[r][w].arg = o /\ jLog[r][w].ok
        /\ (\E w \in Writes(r) : ~jLog[r][w].ok) => Invokes(r) = {}

\* one run has invoked the Loader Stage after its three writes, another has
\* failed at a write
C21_Witness ==
    \E r, q \in SplitRuns :
        /\ Invokes(r) # {}
        /\ Cardinality(Written(r)) = Len(curated)
        /\ jPc[q] = "failed"
        /\ \E w \in Writes(q) : ~jLog[q][w].ok
        /\ Invokes(q) = {}

\* C22: the step a run of the split job takes at its invoke call leads to the
\* commit whether the call was accepted or raised; the commit is never held
\* back by the Loader Stage; a run that completed made the call once and
\* committed; and the step in which the Loader Stage produces its response
\* changes nothing of any run.
C22_Step ==
    /\ \A r \in SplitRuns :
          (jPc[r] = "invoke" /\ jPc'[r] # jPc[r]) => jPc'[r] = "commit"
    /\ resp' # resp => (jPc' = jPc /\ jLog' = jLog)

C22_Completes ==
    \A r \in SplitRuns :
        /\ jPc[r] = "invoke" => ENABLED SplitInvoke(r)
        /\ jPc[r] = "commit" => ENABLED SplitCommit(r)
        /\ jPc[r] = "done" =>
              /\ Cardinality(Invokes(r)) = 1
              /\ jLog[r][Len(jLog[r])] = JobCall("commit", "-", TRUE)

C22_IndependentOfLoader == [](C22_Completes) /\ [][C22_Step]_vars

\* one run completed though its invoke call raised, another completed and the
\* invocation it asked for returned status error
C22_Witness ==
    \E r, q \in SplitRuns :
        /\ jPc[r] = "done" /\ Invokes(r) # {} /\ Accepted(r) = {}
        /\ jPc[q] = "done" /\ Accepted(q) # {}
        /\ resp[Solo] = "error"

\* objects of the transform job run whose keys pass the Stage 2 filter
MatchingObjects == MatchCount(objects)

Undelivered == MatchCount([n \in 1..(Len(objects) - delivered) |->
                              objects[delivered + n]])

InvokeCalls == Cardinality({r \in SplitRuns : Invokes(r) # {}})

\* every notification was handed to Stage 2 and every invocation of Stage 2
\* returned status success
C23_AllHandled ==
    /\ tPc = "done"
    /\ delivered = Len(objects)
    /\ s2Pc = "done" /\ s2Resp = "success"
    /\ s2Lost = 0

\* C23: of the N matching objects a transform job run wrote, each is either
\* still to be handed over or processed, was left by a Stage 2 invocation that
\* ended in error, or has had a split job run started for it, none twice and
\* none merged with another; so once all were handed over and every Stage 2
\* invocation returned success, N start requests were made, however the
\* notifications were grouped.  Every requested run is launched, every run
\* that completed made one invoke call, and once the N runs have completed,
\* N Loader Stage invocations have been asked for.
C23_NoSuppression ==
    /\ SplitRequests + s2Lost + Unhandled + Undelivered = MatchingObjects
    /\ C23_AllHandled => SplitRequests = MatchingObjects
    /\ Cardinality(Launched) <= SplitRequests
    /\ Cardinality(Launched) < SplitRequests =>
          \E r \in SplitRuns : ENABLED SplitBegins(r)
    /\ \A r \in SplitRuns : jPc[r] = "done" => Cardinality(Invokes(r)) = 1
    /\ (C23_AllHandled /\ \A r \in 1..MatchingObjects : jPc[r] = "done")
          => InvokeCalls = MatchingObjects

\* two matching objects, handed to two invocations of Stage 2; both runs have
\* completed and two Loader Stage invocations were asked for
C23_Witness ==
    /\ C23_AllHandled
    /\ MatchingObjects = MaxObjects
    /\ jStarted >= 1 /\ Len(s2Runs) >= 1
    /\ \A r \in 1..MatchingObjects : jPc[r] = "done"
    /\ InvokeCalls = MatchingObjects
    /\ MatchingObjects > 1

C25_Terminates ==
    /\ pResult \in {"running", "success", "timeout"}
    /\ pPolls <= CeilDiv(pMax, pInt) + 1
    /\ pResult = "running" =>
          /\ pSleeps = pPolls
          /\ pWaited = pSleeps * pInt
          /\ pWaited < pMax + pInt
          /\ ENABLED PollNext
    /\ pResult = "timeout" => pWaited >= pMax
    /\ pResult = "success" => pSeen

\* the crawler poller as deployed has raised TimeoutError at its last
\* possible status check
C25_Witness ==
    /\ pWhich = "crawler"
    /\ pMax = CrawlerMaxSeconds /\ pInt = PollInterval
    /\ pResult = "timeout"
    /\ pPolls = CeilDiv(pMax, pInt) + 1

(***************************************************************************)
(* Further properties of the three handlers (HandlersSpec).                *)
(***************************************************************************)
\* C26: a handler whose environment lacks a required setting makes no call
\* that changes anything and returns status error: Stage 1 without
\* GLUE_JOB_NAME makes no start request, Stage 2 without BUCKET_NAME makes
\* none whatever its event holds, and a Loader Stage invocation that lacks
\* any one of its nine settings makes no call after get_caller_identity.
C26_ConfigFirst ==
    /\ (s1Job = "" /\ s1Pc # "off") =>
          /\ s1Calls = <<>>
          /\ s1Pc \in {"start", "done"}
          /\ s1Pc = "done" => s1Resp.status = "error"
    /\ (s2Bucket = "" /\ s2Pc # "off") =>
          /\ s2Runs = <<>>
          /\ s2Pc \in {"start", "done"}
          /\ s2Pc = "done" => s2Resp = "error"
    /\ \A i \in Slots :
          /\ missing[i] # "none" =>
                /\ pc[i] = "begin"
                /\ log[i] = <<>>
          /\ cause[i] = "config" =>
                /\ pc[i] = "done" /\ resp[i] = "error"
                /\ log[i] = <<Entry("get_caller_identity", "-")>>

\* a Loader Stage invocation that lacked a setting has returned status
\* error, on an account where it created nothing
C26_Witness ==
    \E i \in Slots :
        /\ cause[i] = "config" /\ resp[i] = "error"
        /\ \A k \in LoaderKinds : ~res[k].exists

\* Stage 1 without GLUE_JOB_NAME, and Stage 2 without BUCKET_NAME handed a
\* matching notification, have returned status error
C26_Stage1Case == s1Job = "" /\ s1Pc = "done" /\ s1Resp.status = "error"

C26_Stage2Case ==
    /\ s2Bucket = "" /\ s2Pc = "done" /\ s2Resp = "error"
    /\ \E n \in 1..Len(s2Event) : s2Event[n].ok /\ ~Skips(s2Event[n].key)

\* C27: an exception at the k-th notification (a record without its key, or
\* a start request that raises) ends the invocation with status error at
\* that notification: the runs started for the notifications before it stay
\* as they are, nothing after the k-th is looked at, and the handler has
\* returned, so that the platform has no failed invocation to deliver again.
C27_Step ==
    /\ Len(s2Runs') >= Len(s2Runs)
    /\ SubSeq(s2Runs', 1, Len(s2Runs)) = s2Runs
    /\ s2Pc = "done" => UNCHANGED s2Vars
    /\ (s2Pc = "loop" /\ s2Idx <= Len(s2Event) /\ ~s2Event[s2Idx].ok /\ s2Pc' # s2Pc)
          => s2Resp' = "error"
    /\ (s2Resp' = "error" /\ s2Resp # "error") =>
          /\ s2Pc' = "done"
          /\ s2Runs' = s2Runs /\ s2Idx' = s2Idx /\ s2Skipped' = s2Skipped

C27_Stopped ==
    /\ s2Pc # "escaped"
    /\ (s2Resp = "error" /\ s2Bucket # "") =>
          /\ s2Pc = "done"
          /\ s2Idx <= Len(s2Event)
          /\ ~s2Event[s2Idx].ok \/ ~Skips(s2Event[s2Idx].key)
          /\ \A n \in 1..Len(s2Runs) : s2Runs[n].record < s2Idx
          /\ \A n \in s2Skipped : n < s2Idx
          /\ Len(s2Runs) + Cardinality(s2Skipped) = s2Idx - 1

C27_StopsAtFailure == [](C27_Stopped) /\ [][C27_Step]_vars

\* the second of three notifications failed: the run started for the first
\* stands, the third, which matches, was not looked at
C27_Witness ==
    /\ s2Resp = "error" /\ s2Pc = "done"
    /\ Len(s2Event) = 3 /\ s2Idx = 2
    /\ Len(s2Runs) = 1 /\ s2Runs[1].record = 1
    /\ s2Event[3].ok /\ ~Skips(s2Event[3].key)

(***************************************************************************)
(* Further properties of the Loader Stage.                                 *)
(***************************************************************************)
SqlPcs == {"create_table", "truncate", "copy", "return"}

Index(L, c) == CHOOSE n \in 1..Len(L) : L[n].call = c /\ \A m \in 1..(n - 1) : L[m].call # c

Has(L, c) == \E n \in 1..Len(L) : L[n].call = c

\* C28: an invocation leaves its workgroup wait for the next step only at a
\* check that returned AVAILABLE, enters its crawler wait only from a start
\* request that was accepted, leaves it for the first statement only at a
\* check that returned READY, and reaches its statements in no other way; so
\* every statement in its trace comes after its workgroup wait, its start
\* request and its crawler wait, in this order, and a success response comes
\* with all nine statements.
C28_Step ==
    \A i \in Slots :
        /\ (pc[i] = "wait_workgroup" /\ pc'[i] \notin {"wait_workgroup", "done", "escaped"})
              => wgStatus = "AVAILABLE" /\ pc'[i] = "get_database"
        /\ (pc[i] # "wait_crawler" /\ pc'[i] = "wait_crawler")
              => pc[i] = "start_crawler" /\ crState = "READY" /\ ~crPending
        /\ (pc[i] = "wait_crawler" /\ pc'[i] \notin {"wait_crawler", "done", "escaped"})
              => crState = "READY" /\ pc'[i] = "create_table"
        /\ (pc[i] \notin SqlPcs /\ pc'[i] \in SqlPcs)
              => pc[i] = "wait_crawler" /\ pc'[i] = "create_table"

C28_Observed ==
    \A i \in Slots :
        /\ (\E c \in SqlCalls : Has(log[i], c)) =>
              /\ Has(log[i], "wait_workgroup")
              /\ Has(log[i], "start_crawler")
              /\ Has(log[i], "wait_crawler")
              /\ Index(log[i], "wait_workgroup") < Index(log[i], "start_crawler")
              /\ Index(log[i], "start_crawler") < Index(log[i], "wait_crawler")
              /\ \A n \in 1..Len(log[i]) :
                    log[i][n].call \in SqlCalls => n > Index(log[i], "wait_crawler")
        /\ resp[i] = "success" =>
              /\ Has(log[i], "wait_workgroup") /\ Has(log[i], "wait_crawler")
              /\ \A c \in SqlCalls : Count(log[i], c) = Len(tables)
              /\ Cardinality({n \in 1..Len(log[i]) : log[i][n].call \in SqlCalls})
                    = Len(ddl_statements) + Len(tables) + Len(copy_statements)

C28_StatementsAfterBothWaits == [](C28_Observed) /\ [][C28_Step]_vars

\* an invocation that had to wait for the workgroup and then for the crawl
\* it started has returned success
C28_Witness ==
    \E i \in Slots :
        /\ resp[i] = "success"
        /\ atStart[i] = {}
        /\ Cardinality({n \in 1..Len(log[i]) : log[i][n].call \in SqlCalls}) = 9

\* the resource each dependent resource is bound to
BoundTo(k) == IF k = "workgroup" THEN "namespace" ELSE "database"

\* C29: whatever the invocations do, one after the other or overlapping,
\* completing or failing part-way, a workgroup exists only with its
\* namespace and a crawler only with its catalog database, and the step that
\* creates a workgroup or a crawler finds the resource it is bound to
\* already there.
C29_Step ==
    \A k \in {"workgroup", "crawler"} :
        (res'[k].exists /\ ~res[k].exists) => res[BoundTo(k)].exists

C29_Bound ==
    \A k \in {"workgroup", "crawler"} :
        res[k].exists => res[BoundTo(k)].exists

C29_DependentAfterOwner == [](C29_Bound) /\ [][C29_Step]_vars

\* two invocations overlapped: one created the namespace, the other the
\* workgroup in it, and the first has failed part-way with the crawler and
\* its database still to be made
C29_Witness ==
    \E i, j \in Slots :
        /\ i # j
        /\ res["namespace"].by = inv[i] /\ res["namespace"].exists
        /\ res["workgroup"].by = inv[j] /\ res["workgroup"].exists
        /\ resp[i] = "error"
        /\ ~res["database"].exists /\ ~res["crawler"].exists

\* C30: a status check of the workgroup wait that reads anything but
\* AVAILABLE, FAILED and DELETING included, is followed by a sleep of the
\* poll interval as long as the time slept is short of the deadline, and by
\* TimeoutError only once it is not; so an invocation whose workgroup stays
\* FAILED gives its error response only after it has slept max_seconds.
C30_Step ==
    /\ \A i \in Slots :
          (/\ pc[i] = "wait_workgroup"
           /\ wgStatus # "AVAILABLE"
           /\ pc'[i] # pc[i] \/ waited'[i] # waited[i]
           /\ cause'[i] # "fault")
          => IF waited[i] >= WorkgroupMaxSeconds
             THEN pc'[i] = "done" /\ resp'[i] = "error" /\ cause'[i] = "timeout"
             ELSE /\ pc'[i] = "wait_workgroup" /\ resp'[i] = "none"
                  /\ waited'[i] = waited[i] + PollInterval
    /\ (pWhich = "workgroup" /\ pPolls' = pPolls + 1 /\ pSeen' = pSeen)
          => IF pWaited >= pMax
             THEN pResult' = "timeout"
             ELSE pResult' = "running" /\ pWaited' = pWaited + pInt

C30_NoEarlyExit == [][C30_Step]_vars

\* the workgroup has failed and the invocation is still waiting, one sleep
\* short of its deadline
C30_Witness ==
    /\ wgStatus = "FAILED"
    /\ pc[Solo] = "wait_workgroup"
    /\ waited[Solo] = WorkgroupMaxSeconds - PollInterval

(***************************************************************************)
(* Properties of the deployment and of the event wiring.                   *)
(***************************************************************************)
\* C31: with the functions as deployed, the sleeps of the Loader Stage's two
\* waits (up to 900 s for the workgroup, then up to 600 s for the crawler)
\* fit within the function's Timeout: no invocation is ended by the platform,
\* every wait that runs out ends in TimeoutError and the error response.
C31_WaitsWithinCeiling ==
    /\ WorkgroupMaxSeconds + CrawlerMaxSeconds <= Ceiling
    /\ \A i \in Slots : pc[i] # "terminated"

\* the consequence alone: no invocation is ended by the platform
C31_NeverTerminated == \A i \in Slots : pc[i] # "terminated"

\* what holds instead: the workgroup wait never ends in TimeoutError, and no
\* invocation sleeps as long as its Timeout
C31_WorkgroupTimeoutUnreached ==
    \A i \in Slots :
        /\ elapsed[i] < LoaderTimeout
        /\ (cause[i] = "timeout") => Last(log[i]).call = "wait_crawler"

\* the crawler wait's TimeoutError is reached when the workgroup wait was short
C31_CrawlerTimeoutReached ==
    /\ pc[Solo] = "done" /\ resp[Solo] = "error" /\ cause[Solo] = "timeout"
    /\ Last(log[Solo]).call = "wait_crawler"

\* an invocation is ended in its workgroup wait, and one in its crawler wait
C31_EndedInWorkgroupWait ==
    pc[Solo] = "terminated" /\ Last(log[Solo]).call = "wait_workgroup"

C31_EndedInCrawlerWait ==
    pc[Solo] = "terminated" /\ Last(log[Solo]).call = "wait_crawler"

\* C33: when a call of create_or_update_lambda has returned, the named
\* function exists with the code, handler, timeout and environment given
\* (the empty environment for None), whether it existed before or not; if it
\* existed, the call updated the code and then the configuration, else it
\* only created; no other function changed; and a call that repeats the
\* call before it leaves every function as that call left it.
C33_Given(f, a) ==
    /\ f.exists
    /\ f.code = ZipBytes(a.zip_file)
    /\ f.handler = a.handler
    /\ f.timeout = a.timeout
    /\ f.env = OrEmpty(a.env_vars)

C33_Converges ==
    dPc = "returned" =>
        /\ C33_Given(fn[dArgs.function_name], dArgs)
        /\ dLog = IF dBefore[dArgs.function_name].exists
                  THEN <<"get_role", "create_function", "update_function_code",
                         "update_function_configuration">>
                  ELSE <<"get_role", "create_function">>
        /\ \A g \in FunctionNames \ {dArgs.function_name} : fn[g] = dBefore[g]
        /\ dSame => fn = dBefore

\* a call has returned that repeated, on a function an earlier deployment by
\* other means had left, the call before it
C33_Witness ==
    /\ dPc = "returned" /\ dSame
    /\ dBefore[dArgs.function_name].runtime = Legacy.runtime
    /\ Len(dLog) = 4

\* a call has returned that found a function nothing of which was as asked,
\* and one that created the function
C33_UpdatedLegacy ==
    /\ dPc = "returned"
    /\ dBefore[dArgs.function_name] = Legacy

C33_Created ==
    /\ dPc = "returned"
    /\ ~dBefore[dArgs.function_name].exists

\* main, run on an account without the functions, leaves them as CeilingSpec
\* starts from
C33_MainDeployed == dPc = "returned" /\ FunctionsDeployed

\* a call that raised after the code update leaves new code under the old
\* configuration
C33_HalfUpdated ==
    /\ dPc = "raised"
    /\ fn[dArgs.function_name].code = ZipBytes(dArgs.zip_file)
    /\ fn[dArgs.function_name].handler = Legacy.handler

\* C32: however often the two wiring functions are run, every notification
\* entry the bucket held when a run began is still there, unchanged and in
\* its place; a run of add_s3_event_notification that returned leaves exactly
\* one entry targeting Stage 2; a run that found such an entry made no put
\* call; and add_s3_permission_to_lambda raises only for an error other than
\* the conflict of a repeated grant, after which the grant is in the policy.
IsPrefix(a, b) == Len(a) <= Len(b) /\ \A n \in 1..Len(a) : b[n] = a[n]

C32_Targeting(config) ==
    {n \in 1..Len(config.LambdaFunctionConfigurations) :
        config.LambdaFunctionConfigurations[n].LambdaFunctionArn = lambda_arn}

C32_Puts == {n \in 1..Len(wLog) : wLog[n].call = "put_bucket_notification_configuration"}

C32_Idempotent ==
    /\ IsPrefix(wBefore.LambdaFunctionConfigurations, notif.LambdaFunctionConfigurations)
    /\ notif.TopicConfigurations = wBefore.TopicConfigurations
    /\ notif.QueueConfigurations = wBefore.QueueConfigurations
    /\ (wPc = "returned" /\ Last(wLog).call # "add_permission")
           => Cardinality(C32_Targeting(notif)) = 1
    /\ already_exists(wBefore) => C32_Puts = {} /\ notif = wBefore
    /\ wPc = "raised" => Last(wLog).error \in OtherErrorCodes
    /\ (wPc = "returned" /\ Last(wLog).call = "add_permission")
           => StatementId \in perms

\* a run of add_s3_event_notification has returned without a put call, the
\* bucket holding the entry an earlier run had appended to those of others
C32_Witness ==
    /\ wPc = "returned"
    /\ wLog = <<[call |-> "get_bucket_notification_configuration", error |-> "none"]>>
    /\ notif = Configuration(<<OtherNotification, new_notification>>,
                             <<TopicNotification>>, <<>>)
    /\ StatementId \in perms

\* a repeated grant has been passed over
C32_RepeatedGrant ==
    /\ wPc = "returned"
    /\ wLog = <<[call |-> "add_permission", error |-> "ResourceConflictException"]>>

\* a run has put the entry on a bucket that held others
C32_Appended ==
    /\ wPc = "returned"
    /\ C32_Puts # {}
    /\ wBefore.LambdaFunctionConfigurations = <<OtherNotification>>

====
